---- MODULE Spec2Model ----
(***************************************************************************)
(* tk-http: model of the client pipeline engine (src/client/proto.rs).     *)
(*                                                                         *)
(* Proto owns one writer state, one reader state, the FIFO of in-flight    *)
(* exchanges and the shared close flag.  Its two handlers, start_send and  *)
(* poll_complete, run to completion on one task, so each is one action.    *)
(* What the handlers call into (the codec's start_write, the pending       *)
(* write future, the response parser, the flush of the write buffer) is    *)
(* an input of the action, drawn from the outcomes that call can have.     *)
(***************************************************************************)
EXTENDS Integers, Sequences, FiniteSets, TLC

\* ------------------------------------------------------------------ bounds

\* Number of codecs the application offers to start_send in one behaviour.
MaxCodecs == 4

\* The configured upper bound on in-flight exchanges that the specification
\* demands (default 128); a small configured value is used here.
InFlightLimit == 2

\* ----------------------------------------------------------- input domains

\* item.start_write(..) returns an OptFuture (proto.rs:64-79).
StartWriteOutcomes == {"ValueOk", "ValueErr", "Future", "Done"}

\* io.flush() returns io::Result<()> (proto.rs:58, 99, 108).
FlushOutcomes == {"ok", "err"}

\* fut.poll() on the pending write future (proto.rs:105-112).
FutPollOutcomes == {"Ready", "NotReady", "Err"}

\* The last parser.poll() of one tick, after the parsers that completed
\* (proto.rs:128-134).  Ready(None) is the parser's answer to a premature
\* end of the stream, so it needs the peer to have closed.
ParserPollOutcomes(peerClosed) ==
    {"NotReady", "Err"} \cup (IF peerClosed THEN {"None"} ELSE {})

\* close.store(true) by the holder of a clone of the flag (the encoder handed
\* to start_write, the parser); sets is whether that holder stores in this call.
StoreClose(c, sets) == c \/ (sets = TRUE)

\* ------------------------------------------------------------------- state

VARIABLES
    writing,   \* OutState tag: "Idle", "Write" or "Void"
    wfut,      \* codec whose write future OutState::Write holds, 0 if none
    cout,      \* where the WriteBuf is: "Idle", "future" or "dropped"
    waiting,   \* VecDeque of (codec, counter), as codec ids
    reading,   \* InState tag: "Idle", "Read" or "Void"
    parser,    \* codec the Parser of InState::Read delivers to, 0 if none
    cin,       \* where the ReadBuf is: "Idle", "parser" or "dropped"
    close,     \* the shared AtomicBool
    eof,       \* the peer has closed its side of the stream
    nextId,    \* the next codec the application offers
    log,       \* history of what the engine did to codecs, in order
    ret,       \* what the last handler call returned
    ncall      \* parity of the number of handler calls made

protoVars ==
    <<writing, wfut, cout, waiting, reading, parser, cin, close, eof,
      nextId, log, ret, ncall>>

\* The response encoder (src/server/encoder.rs) of one outgoing message.
VARIABLES
    encoder,   \* struct Encoder: state (MessageState), io (the output buffer)
    written,   \* the data of the write_body calls that returned, in order
    elast      \* the last call made on the encoder and how it ended

encVars == <<encoder, written, elast>>

\* The header scanner (src/server/headers.rs) on one request preamble.
VARIABLES
    request,   \* the httparse Request: method, path, version, headers
    scanned,   \* what parse_headers made of it
    seen       \* what the dispatcher read from the Head it was given

scanVars == <<request, scanned, seen>>

VARIABLES
    ws_buf,     \* the websocket read or write buffer
    ws_limit,   \* the frame size limit of the connection
    ws_masked,  \* parse_frame's masked argument: TRUE on a server
    parsed,     \* what parse_frame returned, "none" before the call
    packet,     \* what write_packet / write_close was called with
    ws_rest,    \* the bytes of the frame that have not arrived yet
    reparsed    \* what a second call of parse_frame returned

wsVars == <<ws_buf, ws_limit, ws_masked, parsed, packet, ws_rest, reparsed>>

vars == <<protoVars, encVars, scanVars, wsVars>>

\* A component that takes no part in a specification stays as it is here.
EncParked == encoder = "none" /\ written = <<>> /\ elast = "none"

ScanParked == request = "none" /\ scanned = "none" /\ seen = "none"

WsParked ==
    /\ ws_buf = <<>>
    /\ ws_limit = 0
    /\ ws_masked = FALSE
    /\ parsed = [res |-> "none"]
    /\ packet = [op |-> "none"]
    /\ ws_rest = <<>>
    /\ reparsed = [res |-> "none"]

\* The engine's fields as one record, the form the handlers are written on.
Engine ==
    [writing |-> writing, wfut |-> wfut, cout |-> cout, waiting |-> waiting,
     reading |-> reading, parser |-> parser, cin |-> cin, close |-> close,
     log |-> log]

Event(e, c) == [ev |-> e, id |-> c]

Ret(op, res, item, err) == [op |-> op, res |-> res, item |-> item, err |-> err]

\* Proto::new
ProtoInit ==
    /\ writing = "Idle"
    /\ wfut = 0
    /\ cout = "Idle"
    /\ waiting = <<>>
    /\ reading = "Idle"
    /\ parser = 0
    /\ cin = "Idle"
    /\ close = FALSE
    /\ eof = FALSE
    /\ nextId = 1
    /\ log = <<>>
    /\ ret = Ret("none", "none", 0, "none")
    /\ ncall = 0

\* ---------------------------------------------------------------- start_send

\* What a handler leaves behind: the engine's fields and the value returned.
\* A panic (unreachable!()) returns nothing: res = "Panic".
Out(s, r) == [st |-> s, ret |-> r]

\* Mutation of CloseLoad: the flag is not looked at.
CloseLoadSkipped(c) == FALSE

\* self.close.load(Ordering::SeqCst)
CloseLoad(c) == c

\* Writer Idle, close asserted: flush and hand the codec back.  The ? on the
\* flush returns with self.writing still Void and the buffer dropped.
SendWhileClosed(s, item, fl) ==
    IF fl = "err"
    THEN Out([s EXCEPT !.writing = "Void", !.cout = "dropped"],
             Ret("start_send", "Err", 0, "Io"))
    ELSE Out([s EXCEPT !.writing = "Idle", !.cout = "Idle"],
             Ret("start_send", "NotReady", item, "none"))

\* Mutation of StartWriteErr: the error is returned after the writer was put
\* back to Idle.
StartWriteErrRestored(s, item) ==
    Out([s EXCEPT !.writing = "Idle", !.cout = "Idle",
                  !.log = Append(@, Event("werr", item))],
        Ret("start_send", "Err", 0, "Encoder"))

\* OptFuture::Value(Err(e)) => return Err(e): the early return is taken before
\* push_back, with self.writing still Void; encoder and codec are dropped.
StartWriteErr(s, item) ==
    Out([s EXCEPT !.writing = "Void", !.cout = "dropped",
                  !.log = Append(@, Event("werr", item))],
        Ret("start_send", "Err", 0, "Encoder"))

\* Writer Idle, close not asserted: the buffer goes into a new encoder, the
\* codec's start_write runs with it, and the codec is queued unless start_write
\* failed.
StartWrite(s, item, sw, sets) ==
    LET s1 == [s EXCEPT !.cout = "future",
                        !.close = StoreClose(@, sets),
                        !.log = Append(@, Event("start_write", item))]
    IN  CASE sw = "ValueOk" ->
               Out([s1 EXCEPT !.writing = "Idle", !.cout = "Idle",
                              !.waiting = Append(@, item),
                              !.log = Append(@, Event("accept", item))],
                   Ret("start_send", "Ready", 0, "none"))
          [] sw = "ValueErr" -> StartWriteErr(s1, item)
          [] sw = "Future" ->
               Out([s1 EXCEPT !.writing = "Write", !.wfut = item,
                              !.waiting = Append(@, item),
                              !.log = Append(@, Event("accept", item))],
                   Ret("start_send", "Ready", 0, "none"))
          [] sw = "Done" ->
               Out([s1 EXCEPT !.writing = "Void", !.cout = "dropped"],
                   Ret("start_send", "Panic", 0, "none"))

\* Mutation of SendWhileWriting: the codec is queued behind the pending write.
SendWhileWritingQueued(s, item) ==
    Out([s EXCEPT !.writing = "Write", !.waiting = Append(@, item),
                  !.log = Append(@, Event("accept", item))],
        Ret("start_send", "Ready", 0, "none"))

\* Writer busy: the codec is handed back, the future is put back.
SendWhileWriting(s, item) ==
    Out([s EXCEPT !.writing = "Write"],
        Ret("start_send", "NotReady", item, "none"))

\* fn start_send(&mut self, item)
start_send(s, item, sw, fl, sets) ==
    CASE s.writing = "Idle" ->
           IF CloseLoad(s.close)
           THEN SendWhileClosed(s, item, fl)
           ELSE StartWrite(s, item, sw, sets)
      [] s.writing = "Write" -> SendWhileWriting(s, item)
      [] s.writing = "Void" ->
           Out(s, Ret("start_send", "Panic", 0, "none"))

\* The engine's fields after a handler call.
Install(o) ==
    /\ writing' = o.st.writing
    /\ wfut' = o.st.wfut
    /\ cout' = o.st.cout
    /\ waiting' = o.st.waiting
    /\ reading' = o.st.reading
    /\ parser' = o.st.parser
    /\ cin' = o.st.cin
    /\ close' = o.st.close
    /\ log' = o.st.log
    /\ ret' = o.ret
    /\ ncall' = 1 - ncall

\* The outcomes of a call the handler makes only under `called`: if it is not
\* made there is nothing to choose.
IfCalled(called, outcomes) == IF called THEN outcomes ELSE {"uncalled"}

\* Whether start_send reaches item.start_write on these fields.
StartsWrite(s) == s.writing = "Idle" /\ ~CloseLoad(s.close)

\* The application offers its next codec.  A codec handed back with NotReady
\* is offered again by the next call; any other outcome consumes it.
StartSend ==
    /\ nextId <= MaxCodecs
    /\ \E sw \in IfCalled(StartsWrite(Engine), StartWriteOutcomes),
          fl \in IfCalled(writing = "Idle" /\ ~StartsWrite(Engine),
                          FlushOutcomes),
          sets \in IfCalled(StartsWrite(Engine), BOOLEAN) :
         LET o == start_send(Engine, nextId, sw, fl, sets)
         IN  /\ Install(o)
             /\ nextId' = IF o.ret.res = "NotReady" THEN nextId ELSE nextId + 1
             /\ UNCHANGED eof
    /\ UNCHANGED <<encVars, scanVars, wsVars>>

\* -------------------------------------------------------------- poll_complete

\* A step of poll_complete: the fields so far and the error that ends the call
\* early ("none" to go on; "Panic" for unreachable!()).
Step(s, e) == [st |-> s, err |-> e]

\* Mutation of AdvanceWriter: a future that is Ready is kept as pending.
AdvanceWriterPending(s, fl, fo, sets) ==
    CASE s.writing = "Idle" ->
           IF fl = "err"
           THEN Step([s EXCEPT !.writing = "Void", !.cout = "dropped"], "Io")
           ELSE Step(s, "none")
      [] s.writing = "Write" ->
           Step([s EXCEPT !.close = StoreClose(@, sets)], "none")
      [] s.writing = "Void" -> Step(s, "Panic")

\* The first statement of poll_complete: advance the writer.  Every ? leaves
\* self.writing as the Void put there by mem::replace.
AdvanceWriter(s, fl, fo, sets) ==
    CASE s.writing = "Idle" ->
           IF fl = "err"
           THEN Step([s EXCEPT !.writing = "Void", !.cout = "dropped"], "Io")
           ELSE Step(s, "none")
      [] s.writing = "Write" ->
           LET s1 == [s EXCEPT !.close = StoreClose(@, sets)]
           IN  IF fo = "Err"
               THEN Step([s1 EXCEPT !.writing = "Void", !.wfut = 0,
                                    !.cout = "dropped",
                                    !.log = Append(@, Event("werr", s.wfut))],
                         "Encoder")
               ELSE IF fo = "Ready"
               THEN IF fl = "err"
                    THEN Step([s1 EXCEPT !.writing = "Void", !.wfut = 0,
                                         !.cout = "dropped"], "Io")
                    ELSE Step([s1 EXCEPT !.writing = "Idle", !.wfut = 0,
                                         !.cout = "Idle"], "none")
               ELSE Step(s1, "none")
      [] s.writing = "Void" -> Step(s, "Panic")

\* Mutation of PopFront: the newest exchange is taken (pop_back).
PopBack(q) == [item |-> q[Len(q)], rest |-> SubSeq(q, 1, Len(q) - 1)]

\* self.waiting.pop_front()
PopFront(q) == [item |-> Head(q), rest |-> Tail(q)]

\* InState::Idle(io) with a queued exchange: Parser::new(io, nr, state, close).
PopExchange(s) ==
    LET p == PopFront(s.waiting)
    IN  [s EXCEPT !.reading = "Read", !.parser = p.item, !.waiting = p.rest,
                  !.cin = "parser",
                  !.log = Append(@, Event("create", p.item))]

\* Mutation of ReaderIdleEmpty: an idle reader looks at the stream and
\* reports its end as Closed.
ReaderIdleEmptyEof(s) ==
    IF eof
    THEN Step([s EXCEPT !.reading = "Void", !.cin = "dropped"], "Closed")
    ELSE Step(s, "none")

\* InState::Idle(io) with an empty queue: (InState::Idle(io), false).  The read
\* buffer is not polled, so a closed stream is not looked at here.
ReaderIdleEmpty(s) == Step(s, "none")

\* parser.poll() gave Async::Ready(Some(io)).
ParserDone(s) ==
    [s EXCEPT !.reading = "Idle", !.parser = 0, !.cin = "Idle",
              !.log = Append(@, Event("complete", s.parser))]

\* The reader loop.  The parsers polled in one call answer Ready(Some(io)) n
\* times and then `last`; psets is whether a polled parser stores close.
RECURSIVE ReadLoop(_, _, _, _)
ReadLoop(s, n, last, psets) ==
    CASE s.reading = "Idle" ->
           IF s.waiting # <<>>
           THEN ReadLoop(PopExchange(s), n, last, psets)
           ELSE ReaderIdleEmpty(s)
      [] s.reading = "Read" ->
           LET s1 == [s EXCEPT !.close = StoreClose(@, psets)]
           IN  IF n > 0
               THEN ReadLoop(ParserDone(s1), n - 1, last, psets)
               ELSE IF last = "NotReady"
               THEN Step(s1, "none")
               ELSE Step([s1 EXCEPT !.reading = "Void", !.parser = 0,
                                    !.cin = "dropped"],
                         IF last = "None" THEN "Closed" ELSE "Parse")
      [] s.reading = "Void" -> Step(s, "Panic")

\* Mutation of PollReturn: the commented-out answer, Ready once drained.
PollReturnDrained(w, q, r) ==
    IF Len(q) = 0 /\ w = "Idle" /\ r = "Idle" THEN "Ready" ELSE "NotReady"

\* The value poll_complete returns when nothing failed: always NotReady (the
\* variant answering Ready when everything is drained is commented out).
PollReturn(w, q, r) == "NotReady"

\* How a call that ended early comes back to the caller.
EarlyReturn(x) ==
    IF x.err = "Panic"
    THEN Out(x.st, Ret("poll_complete", "Panic", 0, "none"))
    ELSE Out(x.st, Ret("poll_complete", "Err", 0, x.err))

\* fn poll_complete(&mut self)
poll_complete(s, fl, fo, wsets, n, last, psets) ==
    LET w == AdvanceWriter(s, fl, fo, wsets)
    IN  IF w.err # "none"
        THEN EarlyReturn(w)
        ELSE LET r == ReadLoop(w.st, n, last, psets)
             IN  IF r.err # "none"
                 THEN EarlyReturn(r)
                 ELSE Out(r.st,
                          Ret("poll_complete",
                              PollReturn(r.st.writing, r.st.waiting,
                                         r.st.reading),
                              0, "none"))

\* How many parsers one call can poll at most: the active one and one for
\* each queued exchange.
ParsersAhead(s) ==
    IF s.reading = "Void" THEN 0
    ELSE Len(s.waiting) + (IF s.reading = "Read" THEN 1 ELSE 0)

PollComplete ==
    /\ \E fl \in IfCalled(writing # "Void", FlushOutcomes),
          fo \in IfCalled(writing = "Write", FutPollOutcomes),
          wsets \in IfCalled(writing = "Write", BOOLEAN),
          n \in 0..ParsersAhead(Engine),
          last \in IfCalled(ParsersAhead(Engine) > 0, ParserPollOutcomes(eof)),
          psets \in IfCalled(ParsersAhead(Engine) > 0, BOOLEAN) :
         Install(poll_complete(Engine, fl, fo, wsets, n, last, psets))
    /\ UNCHANGED <<eof, nextId>>
    /\ UNCHANGED <<encVars, scanVars, wsVars>>

\* The peer closes its side of the stream.
PeerClose ==
    /\ ~eof
    /\ eof' = TRUE
    /\ UNCHANGED <<writing, wfut, cout, waiting, reading, parser, cin, close,
                   nextId, log, ret, ncall>>
    /\ UNCHANGED <<encVars, scanVars, wsVars>>

ProtoNext == StartSend \/ PollComplete \/ PeerClose

Init == ProtoInit /\ EncParked /\ ScanParked /\ WsParked

Next == ProtoNext

Spec == Init /\ [][Next]_vars

\* ------------------------------------------------------- reading the history

\* The codecs of the events e of the history, in order.
IdsOf(lg, e) ==
    LET s == SelectSeq(lg, LAMBDA x : x.ev = e)
    IN  [i \in 1..Len(s) |-> s[i].id]

StartedWrite == IdsOf(log, "start_write")
Accepted == IdsOf(log, "accept")
Created == IdsOf(log, "create")
Completed == IdsOf(log, "complete")

IsPrefix(a, b) == Len(a) <= Len(b) /\ \A i \in 1..Len(a) : a[i] = b[i]

\* Exchanges in flight: queued, or being parsed.
InFlight == Len(waiting) + (IF reading = "Read" THEN 1 ELSE 0)

\* The codecs the engine holds.
HeldCodecs ==
    {waiting[i] : i \in 1..Len(waiting)} \cup (IF parser # 0 THEN {parser} ELSE {})

\* A serializer error was returned: by start_write at once, or by the future.
SerializerFailed == \E i \in 1..Len(log) : log[i].ev = "werr"

\* This step is a handler call.
Called == ncall' # ncall

\* ---------------------------------------------------------------- C1

\* C1: responses are parsed and delivered in the order of acceptance: the
\* parsers are created in the order the codecs were accepted and complete in
\* that order, and when a parser is created every parser created before it has
\* completed.
C1_FifoDelivery ==
    /\ IsPrefix(Created, Accepted)
    /\ IsPrefix(Completed, Created)
    /\ \A j \in 1..Len(log) :
         log[j].ev = "create" =>
           \A i \in 1..(j - 1) :
             log[i].ev = "create" =>
               \E k \in (i + 1)..(j - 1) : log[k] = Event("complete", log[i].id)

\* Two exchanges delivered and a third being parsed while its request is
\* still being written.
C1_Witness ==
    /\ Len(Completed) >= 2
    /\ Len(Created) >= 3
    /\ writing = "Write"
    /\ wfut = parser

\* ---------------------------------------------------------------- C2

\* C2 as claimed: a start_send made while the writer is Write or the close
\* flag is set returns NotReady with the codec offered, calls no start_write
\* and leaves queue and reader alone; a codec is accepted only from an Idle
\* writer with the flag clear.
C2_BackpressureAlways ==
    [][(Called /\ ret'.op = "start_send") =>
         /\ (writing = "Write" \/ close) =>
              /\ ret'.res = "NotReady"
              /\ ret'.item = nextId
              /\ log' = log
              /\ waiting' = waiting
              /\ reading' = reading /\ parser' = parser
         /\ Accepted' # Accepted => writing = "Idle" /\ ~close]_vars

\* C2 amended: from a Write writer the answer is NotReady with the codec
\* offered; from an Idle writer with the flag set it is that, or the I/O error
\* of the failed flush; in both no start_write is called and queue and reader
\* are left alone.  A codec is accepted only from an Idle writer with the
\* flag clear.
C2_Backpressure ==
    [][(Called /\ ret'.op = "start_send") =>
         /\ writing = "Write" =>
              /\ ret'.res = "NotReady" /\ ret'.item = nextId
              /\ writing' = "Write" /\ wfut' = wfut
         /\ (writing = "Idle" /\ close) =>
              \/ ret'.res = "NotReady" /\ ret'.item = nextId /\ writing' = "Idle"
              \/ ret'.res = "Err" /\ ret'.err = "Io" /\ writing' = "Void"
         /\ (writing = "Write" \/ (writing = "Idle" /\ close)) =>
              /\ log' = log
              /\ waiting' = waiting
              /\ reading' = reading /\ parser' = parser
         /\ Accepted' # Accepted => writing = "Idle" /\ ~close]_vars

\* A codec was handed back because the flag is set, with exchanges queued.
C2_Witness ==
    /\ ret.op = "start_send" /\ ret.res = "NotReady" /\ ret.item = nextId
    /\ writing = "Idle" /\ close
    /\ Len(waiting) >= 2

\* ---------------------------------------------------------------- C3

\* C3: between handler calls neither the writer nor the reader is Void, and no
\* call ran into unreachable!().
C3_VoidUnobservable ==
    /\ writing # "Void"
    /\ reading # "Void"
    /\ ret.res # "Panic"

\* ---------------------------------------------------------------- C4

\* C4: the write buffer is held by the Idle writer state or by the one pending
\* write future, and by exactly one of them; there is at most one pending
\* write future and at most one parser.
C4_OneWriterOneParser ==
    /\ cout \in {"Idle", "future"}
    /\ cout = "Idle" <=> writing = "Idle"
    /\ cout = "future" <=> writing = "Write"
    /\ writing = "Write" <=> wfut # 0
    /\ reading = "Read" <=> parser # 0
    /\ cin = "parser" <=> reading = "Read"

\* ---------------------------------------------------------------- C5

\* C5: poll_complete never answers Ready: a call that returns returns
\* NotReady or an error.
C5_PollNeverReady ==
    ret.op = "poll_complete" =>
      /\ ret.res # "Ready"
      /\ ret.res # "Panic" => ret.res \in {"NotReady", "Err"}

\* A poll of a connection with everything drained after an exchange was
\* served: the case in which a sink would answer Ready.
C5_Witness ==
    /\ ret.op = "poll_complete" /\ ret.res = "NotReady"
    /\ writing = "Idle" /\ reading = "Idle" /\ waiting = <<>>
    /\ Len(Completed) >= 1

\* ---------------------------------------------------------------- C6

\* C6: the number of exchanges in flight never exceeds the configured bound.
C6_InFlightBounded == InFlight <= InFlightLimit

\* ---------------------------------------------------------------- C7

\* C7: the close flag starts false, no handler call clears it once it is set,
\* and no codec is accepted by a call made with the flag set.
C7_CloseMonotonic ==
    /\ ~close
    /\ [][/\ close => close'
          /\ close => Accepted' = Accepted /\ StartedWrite' = StartedWrite]_vars

\* A codec was refused on a connection whose flag was set while an earlier
\* request was written, after that exchange was served.
C7_Witness ==
    /\ close
    /\ ret.op = "start_send" /\ ret.res = "NotReady"
    /\ writing = "Idle"
    /\ Len(Completed) >= 1

\* ---------------------------------------------------------------- C8

\* C8: a serializer error ends the connection's writing.  The call that
\* returns it leaves queue and reader as they were (the failed codec is not
\* queued, the reader is not advanced) and the writer not Idle; from then on
\* the writer is never Idle again, no start_write is called and no codec is
\* accepted.
C8_SerializerErrorFatal ==
    /\ [](SerializerFailed => writing # "Idle")
    /\ [][/\ (Called /\ ret'.res = "Err" /\ ret'.err = "Encoder") =>
               /\ waiting' = waiting
               /\ reading' = reading /\ parser' = parser /\ cin' = cin
               /\ Accepted' = Accepted
               /\ Created' = Created /\ Completed' = Completed
               /\ writing' # "Idle"
               /\ SerializerFailed'
          /\ SerializerFailed =>
               /\ StartedWrite' = StartedWrite
               /\ Accepted' = Accepted]_vars

\* The pending write future failed in a poll with exchanges waiting for their
\* responses, and a later call was made on the connection.
C8_Witness ==
    /\ SerializerFailed
    /\ Len(waiting) >= 2
    /\ reading = "Idle"
    /\ ret.res = "Panic"

\* ---------------------------------------------------------------- C9

FailedClosed == {log[i].id : i \in {j \in 1..Len(log) : log[j].ev = "closed"}}

\* C10: once a handler has returned an error, every codec the engine still
\* holds (queued or in the parser) has been failed with Closed.
C10_HeldCodecsFailed ==
    ret.res = "Err" => \A c \in HeldCodecs : c \in FailedClosed

\* ===================================================== the response encoder
\* src/server/encoder.rs: Encoder is a facade; every call goes to self.state (a
\* MessageState) with the output buffer self.io.out_buf.  MessageState itself
\* (base_serializer) follows the operation table of the message-state
\* serializer and the doc comments of the facade.

\* Bounds of the encoder model.
MaxHead == 2      \* output items up to which 100-continue/add_header repeat
MaxLength == 2    \* largest Content-Length announced
MaxWrites == 3    \* accepted write_body calls

\* Inputs of the calls.
StatusCodes == {100, 200, 204, 304}

HeaderNames == {"Server", "Content-Length", "Transfer-Encoding", "Connection"}

BodyData == {<<>>, <<"a">>, <<"a", "b">>}

Methods == {"GET", "HEAD"}

Versions == {"Http10", "Http11"}

\* One item of the output buffer: what was written (t) and its value (v).
Tok(t, v) == [t |-> t, v |-> v]

\* What a MessageState call yields: the new state, the buffer, the outcome
\* ("ok", "true", "false" for a return, "err" for Err(HeaderError), "panic").
Ms(s, buf, res) == [state |-> s, buf |-> buf, res |-> res]

Panic(s, buf) == Ms(s, buf, "panic")

\* Headers that only the typed paths may write.
TypedHeaders == {"Content-Length", "Transfer-Encoding", "Connection"}

\* Statuses that never carry a body.
IsBodyless(code) == code \in 100..199 \/ code \in {204, 304}

ms_response_continue(s, buf) ==
    IF s.st = "Start"
    THEN Ms(s, Append(buf, Tok("continue", <<>>)), "ok")
    ELSE Panic(s, buf)

ms_status(s, buf, code) ==
    IF s.st = "Start" /\ code # 100
    THEN Ms([s EXCEPT !.st = "StatusWritten", !.code = code],
            Append(buf, Tok("status", <<code>>)), "ok")
    ELSE Panic(s, buf)

ms_add_header(s, buf, name) ==
    IF s.st # "StatusWritten" THEN Panic(s, buf)
    ELSE IF name \in TypedHeaders THEN Ms(s, buf, "err")
    ELSE Ms(s, Append(buf, Tok("header", <<name>>)), "ok")

ms_add_length(s, buf, n) ==
    IF s.st # "StatusWritten" THEN Panic(s, buf)
    ELSE IF s.framing # "None" THEN Ms(s, buf, "err")
    ELSE Ms([s EXCEPT !.framing = "Fixed", !.remaining = n],
            Append(buf, Tok("content-length", <<n>>)), "ok")

ms_add_chunked(s, buf) ==
    IF s.st # "StatusWritten" THEN Panic(s, buf)
    ELSE IF s.framing # "None" THEN Ms(s, buf, "err")
    ELSE Ms([s EXCEPT !.framing = "Chunked"],
            Append(buf, Tok("transfer-encoding", <<"chunked">>)), "ok")

\* Connection: close goes out when close is set and the version does not
\* close by default.
CloseHeader(s, buf) ==
    IF s.close /\ s.version = "Http11"
    THEN Append(buf, Tok("connection", <<"close">>))
    ELSE buf

ms_done_headers(s, buf) ==
    IF s.st # "StatusWritten" THEN Panic(s, buf)
    ELSE LET out == Append(CloseHeader(s, buf), Tok("end", <<>>))
         IN  IF IsBodyless(s.code)
             THEN Ms([s EXCEPT !.st = "Done"], out, "false")
             ELSE IF s.body = "Head"
             THEN Ms([s EXCEPT !.st = "BodyInProgress"], out, "false")
             ELSE Ms([s EXCEPT !.st = "BodyInProgress"], out, "true")

\* Data reaches the buffer as it is; an empty slice adds no byte.
PutBytes(buf, data) ==
    IF data = <<>> THEN buf ELSE Append(buf, Tok("bytes", data))

\* A chunk is its size line, the data and CRLF; empty chunks are dropped.
PutChunk(buf, data) ==
    IF data = <<>> THEN buf ELSE Append(buf, Tok("chunk", data))

ms_write_body(s, buf, data) ==
    IF s.st # "BodyInProgress" THEN Panic(s, buf)
    ELSE IF s.body = "Head" THEN Ms(s, buf, "ok")
    ELSE IF s.framing = "Fixed"
    THEN IF Len(data) > s.remaining THEN Panic(s, buf)
         ELSE Ms([s EXCEPT !.remaining = @ - Len(data)],
                 PutBytes(buf, data), "ok")
    ELSE IF s.framing = "Chunked" THEN Ms(s, PutChunk(buf, data), "ok")
    ELSE Panic(s, buf)

\* Accepted while the body is in progress or after a status without body.
ms_done(s, buf) ==
    IF s.st \notin {"BodyInProgress", "Done"} THEN Panic(s, buf)
    ELSE IF s.body = "Head" THEN Ms([s EXCEPT !.st = "Done"], buf, "ok")
    ELSE IF s.framing = "Fixed"
    THEN IF s.remaining = 0
         THEN Ms([s EXCEPT !.st = "Done"], buf, "ok")
         ELSE Panic(s, buf)
    ELSE IF s.framing = "Chunked"
    THEN Ms([s EXCEPT !.st = "Done"],
            Append(buf, Tok("last-chunk", <<>>)), "ok")
    ELSE Ms([s EXCEPT !.st = "Done"], buf, "ok")

is_after_headers(s) == s.st \in {"HeadersWritten", "BodyInProgress", "Done"}

\* ------------------------------------------------------------- the facade

\* impl From<&Head> for ResponseConfig
ResponseConfig_from(req) ==
    [version |-> req.version,
     is_head |-> req.method = "HEAD",
     do_close |-> req.connection_close]

\* encoder::new that makes every response one with a body.
new_normal(cfg) ==
    [state |-> [st |-> "Start",
                body |-> "Normal",
                version |-> cfg.version,
                close |-> cfg.do_close \/ cfg.version = "Http10",
                framing |-> "None", remaining |-> 0, code |-> 0],
     io |-> <<>>,
     gone |-> "no"]

\* encoder::new
new(cfg) ==
    [state |-> [st |-> "Start",
                body |-> IF cfg.is_head THEN "Head" ELSE "Normal",
                version |-> cfg.version,
                close |-> cfg.do_close \/ cfg.version = "Http10",
                framing |-> "None", remaining |-> 0, code |-> 0],
     io |-> <<>>,
     gone |-> "no"]

\* response_continue that counts as the start of the response.
response_continue_started(e) ==
    LET o == ms_response_continue(e.state, e.io)
    IN  Ms([o.state EXCEPT !.st = IF o.res = "ok" THEN "StatusWritten" ELSE @],
           o.buf, o.res)

response_continue(e) == ms_response_continue(e.state, e.io)

status(e, code) == ms_status(e.state, e.io, code)

add_header(e, name) == ms_add_header(e.state, e.io, name)

\* add_length that takes the message as if no framing header was written.
add_length_fresh(e, n) ==
    ms_add_length([e.state EXCEPT !.framing = "None"], e.io, n)

add_length(e, n) == ms_add_length(e.state, e.io, n)

add_chunked(e) == ms_add_chunked(e.state, e.io)

done_headers(e) == ms_done_headers(e.state, e.io)

\* write_body that takes any amount of data as within the announced length.
write_body_unbounded(e, data) ==
    ms_write_body([e.state EXCEPT !.remaining = @ + Len(data)], e.io, data)

write_body(e, data) == ms_write_body(e.state, e.io, data)

\* done that hands the buffer on without the finalization data.
done_silent(e) == Ms([e.state EXCEPT !.st = "Done"], e.io, "ok")

done(e) == ms_done(e.state, e.io)

\* raw_body without its assertion.
raw_body_unchecked(e) == Ms(e.state, e.io, "ok")

\* assert!(self.state.is_after_headers()); the encoder becomes a RawBody.
raw_body(e) ==
    IF is_after_headers(e.state) THEN Ms(e.state, e.io, "ok")
    ELSE Panic(e.state, e.io)

\* ------------------------------------------------------------ its actions

\* The handler's call op ended as o says; a panic ends the task, and done and
\* raw_body take the encoder by value.
EncCall(op, o) ==
    /\ encoder' = [state |-> o.state, io |-> o.buf,
                   gone |-> IF o.res = "panic" THEN "panicked"
                            ELSE IF op \in {"done", "raw_body"} THEN op
                            ELSE "no"]
    /\ elast' = [op |-> op, res |-> o.res]
    /\ UNCHANGED <<protoVars, scanVars, wsVars>>

Usable == encoder.gone = "no"

CallResponseContinue ==
    /\ Usable
    /\ encoder.state.st = "Start" => Len(encoder.io) < MaxHead
    /\ EncCall("response_continue", response_continue(encoder))
    /\ UNCHANGED written

CallStatus ==
    /\ Usable
    /\ \E code \in StatusCodes : EncCall("status", status(encoder, code))
    /\ UNCHANGED written

CallAddHeader ==
    /\ Usable
    /\ encoder.state.st = "StatusWritten" => Len(encoder.io) < MaxHead
    /\ \E name \in HeaderNames :
         EncCall("add_header", add_header(encoder, name))
    /\ UNCHANGED written

CallAddLength ==
    /\ Usable
    /\ \E n \in 0..MaxLength : EncCall("add_length", add_length(encoder, n))
    /\ UNCHANGED written

CallAddChunked ==
    /\ Usable
    /\ EncCall("add_chunked", add_chunked(encoder))
    /\ UNCHANGED written

CallDoneHeaders ==
    /\ Usable
    /\ EncCall("done_headers", done_headers(encoder))
    /\ UNCHANGED written

CallWriteBody ==
    /\ Usable
    /\ encoder.state.st = "BodyInProgress" => Len(written) < MaxWrites
    /\ \E data \in BodyData :
         LET o == write_body(encoder, data)
         IN  /\ EncCall("write_body", o)
             /\ written' = IF o.res = "ok" THEN Append(written, data)
                           ELSE written

CallDone ==
    /\ Usable
    /\ EncCall("done", done(encoder))
    /\ UNCHANGED written

CallRawBody ==
    /\ Usable
    /\ EncCall("raw_body", raw_body(encoder))
    /\ UNCHANGED written

\* The response to any request head the scanner may have produced: scanned
\* is that head, and the encoder is made from its ResponseConfig.
EncInit ==
    /\ \E m \in Methods, v \in Versions, c \in BOOLEAN :
         scanned = [method |-> m, version |-> v, connection_close |-> c]
    /\ request = "none"
    /\ seen = "none"
    /\ encoder = new(ResponseConfig_from(scanned))
    /\ written = <<>>
    /\ elast = [op |-> "new", res |-> "ok"]
    /\ ProtoInit
    /\ WsParked

EncNext ==
    \/ CallResponseContinue
    \/ CallStatus
    \/ CallAddHeader
    \/ CallAddLength
    \/ CallAddChunked
    \/ CallDoneHeaders
    \/ CallWriteBody
    \/ CallDone
    \/ CallRawBody

SpecEnc == EncInit /\ [][EncNext]_vars

\* ------------------------------------------------------ claims on the encoder

\* The body-framing headers of an output buffer, in order.
FramingHeaders(buf) ==
    SelectSeq(buf, LAMBDA x : x.t \in {"content-length", "transfer-encoding"})

\* C11: at most one body-framing header is emitted per message: add_length
\* and add_chunked succeed only if neither succeeded before on the message (a
\* refused call writes nothing), and the output never holds both a
\* Content-Length and a Transfer-Encoding: chunked, nor two of either.
C11_OneFramingHeader ==
    /\ [](Len(FramingHeaders(encoder.io)) <= 1)
    /\ [][elast'.op \in {"add_length", "add_chunked"} =>
            /\ elast'.res = "ok" =>
                 /\ encoder.state.framing = "None"
                 /\ Len(FramingHeaders(encoder.io)) = 0
                 /\ Len(FramingHeaders(encoder'.io)) = 1
            /\ elast'.res # "ok" => encoder'.io = encoder.io]_vars

\* A second framing header was asked for and refused.
C11_Witness ==
    /\ elast.op \in {"add_length", "add_chunked"}
    /\ elast.res = "err"
    /\ encoder.gone = "no"
    /\ Len(FramingHeaders(encoder.io)) = 1

\* The number of body bytes in an output buffer.
RECURSIVE BodyBytes(_)
BodyBytes(buf) ==
    IF buf = <<>> THEN 0
    ELSE (IF Head(buf).t \in {"bytes", "chunk"} THEN Len(Head(buf).v) ELSE 0)
         + BodyBytes(Tail(buf))

\* The length the Content-Length header of an output buffer announces.
Announced(buf) == FramingHeaders(buf)[1].v[1]

\* The message is framed Fixed(n): a length was announced for a body that is
\* not suppressed.
FramedFixed(e) == e.state.framing = "Fixed" /\ e.state.body = "Normal"

\* C12: for a message framed Fixed(n) the body bytes written never exceed n,
\* and done() succeeds only when they are exactly n; a done() with fewer
\* bytes written is an assertion failure and leaves no completed message.
C12_FixedLengthExact ==
    /\ [](FramedFixed(encoder) =>
            /\ BodyBytes(encoder.io) <= Announced(encoder.io)
            /\ encoder.gone = "done" =>
                 BodyBytes(encoder.io) = Announced(encoder.io))
    /\ [][elast'.op = "done" /\ FramedFixed(encoder) =>
            /\ elast'.res = "ok" <=>
                 /\ encoder.state.st \in {"BodyInProgress", "Done"}
                 /\ BodyBytes(encoder.io) = Announced(encoder.io)
            /\ elast'.res # "ok" =>
                 /\ elast'.res = "panic"
                 /\ encoder'.gone = "panicked"
                 /\ encoder'.state.st # "Done" \/ encoder.state.st = "Done"
                 /\ encoder'.io = encoder.io]_vars

\* A Fixed(n) message, n > 0, completed after its n bytes were written in
\* more than one call.
C12_Witness ==
    /\ FramedFixed(encoder)
    /\ encoder.gone = "done"
    /\ Announced(encoder.io) > 1
    /\ BodyBytes(encoder.io) = Announced(encoder.io)
    /\ Len(written) > 1

\* done() called with fewer bytes written than announced.
C12_WitnessShort ==
    /\ FramedFixed(encoder)
    /\ elast = [op |-> "done", res |-> "panic"]
    /\ encoder.state.st = "BodyInProgress"
    /\ BodyBytes(encoder.io) < Announced(encoder.io)

\* The body part of an output buffer: what follows the end of the headers.
RECURSIVE BodyPart(_)
BodyPart(buf) ==
    IF buf = <<>> THEN <<>>
    ELSE IF Head(buf).t = "end" THEN Tail(buf)
    ELSE BodyPart(Tail(buf))

\* One chunk per non-empty write, in call order.
RECURSIVE ChunksOf(_)
ChunksOf(ws) ==
    IF ws = <<>> THEN <<>>
    ELSE (IF Head(ws) = <<>> THEN <<>> ELSE <<Tok("chunk", Head(ws))>>)
         \o ChunksOf(Tail(ws))

LastChunks(buf) == SelectSeq(buf, LAMBDA x : x.t = "last-chunk")

\* The message is framed Chunked and its body is not suppressed.
FramedChunked(e) == e.state.framing = "Chunked" /\ e.state.body = "Normal"

\* C13: for a message framed Chunked the emitted body is one chunk per
\* non-empty write_body call, in call order (empty writes emit nothing),
\* followed by the terminating zero-chunk, which is emitted exactly once, at
\* done(), and never by a write_body call.
C13_ChunkedBody ==
    /\ [](FramedChunked(encoder) /\ encoder.state.st = "BodyInProgress" =>
            BodyPart(encoder.io) = ChunksOf(written))
    /\ [](FramedChunked(encoder) /\ encoder.gone = "done" =>
            BodyPart(encoder.io) =
                Append(ChunksOf(written), Tok("last-chunk", <<>>)))
    /\ [][Len(LastChunks(encoder'.io)) # Len(LastChunks(encoder.io)) =>
            /\ elast' = [op |-> "done", res |-> "ok"]
            /\ Len(LastChunks(encoder.io)) = 0]_vars

\* The writes "ab", "", "a" followed by done().
C13_Witness ==
    /\ FramedChunked(encoder)
    /\ encoder.gone = "done"
    /\ written = << <<"a", "b">>, <<>>, <<"a">> >>
    /\ Len(BodyPart(encoder.io)) = 3

\* The response answers a HEAD request.
ToHead == scanned.method = "HEAD"

\* C14: in the response to a HEAD request the framing header written by
\* add_length/add_chunked is emitted, no body byte reaches the output buffer
\* whatever write_body calls are made, and done() completes the message.
C14_HeadNoBody ==
    /\ [](ToHead => BodyPart(encoder.io) = <<>>)
    /\ [][ToHead =>
            /\ elast'.op \in {"add_length", "add_chunked"}
               /\ encoder.state.st = "StatusWritten"
               /\ encoder.state.framing = "None"
               => /\ elast'.res = "ok"
                  /\ Len(FramingHeaders(encoder'.io)) = 1
            /\ elast'.op = "write_body"
               /\ encoder.state.st = "BodyInProgress"
               => /\ elast'.res = "ok"
                  /\ encoder'.io = encoder.io
            /\ elast'.op = "done"
               /\ encoder.state.st = "BodyInProgress"
               => /\ elast'.res = "ok"
                  /\ encoder'.state.st = "Done"
                  /\ encoder'.gone = "done"]_vars

\* A HEAD response with Content-Length: 2 completed after two bytes of body
\* were written (scenario S4).
C14_Witness ==
    /\ ToHead
    /\ encoder.gone = "done"
    /\ encoder.state.st = "Done"
    /\ FramingHeaders(encoder.io) = <<Tok("content-length", <<2>>)>>
    /\ written = << <<"a", "b">> >>
    /\ BodyPart(encoder.io) = <<>>

\* How far a message has come.
Rank(st) ==
    CASE st = "Start" -> 0
      [] st = "StatusWritten" -> 1
      [] st \in {"HeadersWritten", "BodyInProgress"} -> 2
      [] st = "Done" -> 3

HeaderOps == {"add_header", "add_length", "add_chunked"}

\* The state a call is accepted in.
AcceptedIn(op) ==
    CASE op \in {"response_continue", "status"} -> {"Start"}
      [] op \in HeaderOps \cup {"done_headers"} -> {"StatusWritten"}
      [] op = "write_body" -> {"BodyInProgress"}
      [] op \in {"done", "raw_body"} -> {"BodyInProgress", "Done"}

\* The positions of the items of kinds ts in an output buffer.
Places(buf, ts) == {i \in 1..Len(buf) : buf[i].t \in ts}

HeaderToks == {"header", "content-length", "transfer-encoding", "connection"}

BodyToks == {"bytes", "chunk", "last-chunk"}

\* Status line, then headers, then the end of headers, then the body.
Ordered(buf) ==
    /\ \A i \in Places(buf, {"status"}), j \in Places(buf, HeaderToks) : i < j
    /\ \A i \in Places(buf, HeaderToks), j \in Places(buf, {"end"}) : i < j
    /\ \A i \in Places(buf, {"end"}), j \in Places(buf, BodyToks) : i < j
    /\ \A j \in Places(buf, HeaderToks) : Places(buf, {"status"}) # {}
    /\ \A j \in Places(buf, BodyToks) : Places(buf, {"end"}) # {}
    /\ Cardinality(Places(buf, {"status"})) <= 1
    /\ Cardinality(Places(buf, {"end"})) <= 1

\* C15: within one message the serializer only moves forward through Start,
\* StatusWritten, HeadersWritten/BodyInProgress, Done; a header write is
\* accepted only after the status line and before done_headers, a body write
\* only after done_headers; a call in any other state is an assertion failure
\* that writes nothing.
C15_ForwardOnly ==
    /\ [](Ordered(encoder.io))
    /\ [][/\ Rank(encoder'.state.st) >= Rank(encoder.state.st)
          /\ elast'.op \in HeaderOps /\ elast'.res = "ok" =>
               /\ encoder.state.st = "StatusWritten"
               /\ Places(encoder.io, {"status"}) # {}
               /\ Places(encoder.io, {"end"}) = {}
          /\ elast'.op = "write_body" /\ elast'.res = "ok" =>
               /\ encoder.state.st = "BodyInProgress"
               /\ Places(encoder.io, {"end"}) # {}
          /\ encoder.state.st \notin AcceptedIn(elast'.op) =>
               /\ elast'.res = "panic"
               /\ encoder'.gone = "panicked"
               /\ encoder'.io = encoder.io
               /\ encoder'.state = encoder.state]_vars

\* A header write refused after the body was begun.
C15_Witness ==
    /\ elast.op \in HeaderOps
    /\ elast.res = "panic"
    /\ encoder.state.st = "BodyInProgress"
    /\ written # <<>>
    /\ Places(encoder.io, BodyToks) # {}

\* C16: response_continue is accepted only in Start and leaves the message
\* state as it was, so that a final status line can still be written; after
\* the status line it is an assertion failure; 100 is never accepted as the
\* final status.
C16_ContinueOnlyInStart ==
    /\ [](/\ encoder.state.code # 100
          /\ \A i \in Places(encoder.io, {"status"}) :
               encoder.io[i].v # <<100>>
          /\ status(encoder, 100).res = "panic")
    /\ [](elast = [op |-> "response_continue", res |-> "ok"] =>
            /\ encoder.state.st = "Start"
            /\ status(encoder, 200).res = "ok")
    /\ [][elast'.op = "response_continue" =>
            /\ elast'.res = "ok" <=> encoder.state.st = "Start"
            /\ elast'.res = "ok" =>
                 /\ encoder'.state = encoder.state
                 /\ encoder'.io =
                      Append(encoder.io, Tok("continue", <<>>))
            /\ elast'.res # "ok" =>
                 /\ elast'.res = "panic"
                 /\ encoder'.io = encoder.io]_vars

\* A final status line written after 100 Continue.
C16_Witness ==
    /\ elast = [op |-> "status", res |-> "ok"]
    /\ Len(encoder.io) = 2
    /\ encoder.io[1].t = "continue"
    /\ encoder.io[2].t = "status"
    /\ encoder.state.st = "StatusWritten"

\* ======================================================= the header scanner
\* src/server/headers.rs: parse_headers scans the request that httparse found
\* in the buffer (scan_headers), builds the Head and hands it to the
\* dispatcher.  Strings are taken from a small alphabet of header names and
\* values; Option<&str> is <<>> for None and <<s>> for Some(s).

\* Bound of the scanner model.
MaxHeaders == 3   \* header lines of a request

\* Inputs: the fields of the parsed httparse::Request.
ScanMethods == {"GET", "CONNECT"}

ScanVersions == {0, 1}

Paths == {"/p", "http://a/p", "a:443", "%"}

HeaderLines ==
    {[name |-> "Transfer-Encoding", value |-> "chunked"],
     [name |-> "transfer-encoding", value |-> "gzip, chunked"],
     [name |-> "Transfer-Encoding", value |-> "chunked, gzip"],
     [name |-> "Content-Length", value |-> "5"],
     [name |-> "content-length", value |-> "7"],
     [name |-> "Content-Length", value |-> "x"],
     [name |-> "Host", value |-> "a"],
     [name |-> "HOST", value |-> " a "],
     [name |-> "Host", value |-> "b"],
     [name |-> "Connection", value |-> "keep-alive, Close"],
     [name |-> "Connection", value |-> "keep-alive"],
     [name |-> "Expect", value |-> "100-continue"]}

\* ------------------------------------------------------- string primitives

\* ASCII lower case, on the alphabet.
Lower(s) ==
    CASE s = "Transfer-Encoding" -> "transfer-encoding"
      [] s = "Content-Length" -> "content-length"
      [] s \in {"Host", "HOST"} -> "host"
      [] s = "Connection" -> "connection"
      [] s = "Expect" -> "expect"
      [] s = "Upgrade" -> "upgrade"
      [] s = " Upgrade" -> " upgrade"
      [] s = "Close" -> "close"
      [] s = " Close" -> " close"
      [] s = "X-Foo" -> "x-foo"
      [] s = "Sec-WebSocket-Key" -> "sec-websocket-key"
      [] s = "Sec-WebSocket-Version" -> "sec-websocket-version"
      [] s = "Sec-WebSocket-Protocol" -> "sec-websocket-protocol"
      [] s = "Sec-WebSocket-Extensions" -> "sec-websocket-extensions"
      [] OTHER -> s

eq_ignore_ascii_case(a, b) == Lower(a) = Lower(b)

\* str::trim, on the alphabet.
Trim(s) ==
    CASE s = " a " -> "a"
      [] s = " chunked" -> "chunked"
      [] s = " gzip" -> "gzip"
      [] s = " Upgrade" -> "Upgrade"
      [] s = " Close" -> "Close"
      [] s = " close" -> "close"
      [] s = " keep-alive" -> "keep-alive"
      [] s = " x-foo" -> "x-foo"
      [] OTHER -> s

\* value.split(|&x| x == b','), on the alphabet.
Split(s) ==
    CASE s = "gzip, chunked" -> <<"gzip", " chunked">>
      [] s = "chunked, gzip" -> <<"chunked", " gzip">>
      [] s = "keep-alive, Upgrade" -> <<"keep-alive", " Upgrade">>
      [] s = "Close, x-foo" -> <<"Close", " x-foo">>
      [] s = "keep-alive, Close" -> <<"keep-alive", " Close">>
      [] OTHER -> <<s>>

\* str::parse::<u64>: <<n>> for Ok(n), <<>> for Err.
ParseU64(s) ==
    CASE s = "5" -> <<5>>
      [] s = "7" -> <<7>>
      [] OTHER -> <<>>

\* headers::is_chunked, is_close, is_continue: the token, surrounding
\* whitespace and case apart, is the word.
is_chunked(tok) == Lower(Trim(tok)) = "chunked"

is_close(tok) == Lower(Trim(tok)) = "close"

is_continue(val) == Lower(Trim(val)) = "100-continue"

\* request_target::parse: the four forms, or None.
ParseTarget(path) ==
    CASE path = "/p" -> [form |-> "Origin", authority |-> <<>>]
      [] path = "http://a/p" -> [form |-> "Absolute", authority |-> <<"a">>]
      [] path = "a:443" -> [form |-> "Authority", authority |-> <<"a:443">>]
      [] path = "*" -> [form |-> "Asterisk", authority |-> <<>>]
      [] OTHER -> [form |-> "None", authority |-> <<>>]

\* ------------------------------------------------------------ scan_headers

Fixed(n) == [kind |-> "Fixed", len |-> n]

Chunked == [kind |-> "Chunked", len |-> 0]

Unsupported == [kind |-> "Unsupported", len |-> 0]

\* The locals of scan_headers before the loop; err is "" until an early
\* return.
ScanStart(raw, target) ==
    [has_content_length |-> FALSE,
     close |-> raw.version = 0,
     expect_continue |-> FALSE,
     body |-> Fixed(0),
     connection |-> <<>>,
     host_header |-> FALSE,
     conflicting_host |-> FALSE,
     host |-> IF target.form \in {"Authority", "Absolute"}
              THEN target.authority ELSE <<>>,
     err |-> ""]

\* The Transfer-Encoding branch looking at the first token.
OnTransferEncodingFirst(a, header) ==
    LET enc == Split(header.value)[1]
    IN  IF is_chunked(enc)
        THEN [a EXCEPT !.close = a.close \/ a.has_content_length,
                       !.body = Chunked]
        ELSE a

OnTransferEncoding(a, header) ==
    LET enc == Split(header.value)[Len(Split(header.value))]
    IN  IF is_chunked(enc)
        THEN [a EXCEPT !.close = a.close \/ a.has_content_length,
                       !.body = Chunked]
        ELSE a

\* The Content-Length branch keeping the connection when chunked was seen.
OnContentLengthKeepAlive(a, header) ==
    IF a.has_content_length THEN [a EXCEPT !.err = "DuplicateContentLength"]
    ELSE IF a.body # Chunked
    THEN IF ParseU64(header.value) = <<>>
         THEN [a EXCEPT !.has_content_length = TRUE,
                        !.err = "ContentLengthInvalid"]
         ELSE [a EXCEPT !.has_content_length = TRUE,
                        !.body = Fixed(ParseU64(header.value)[1])]
    ELSE [a EXCEPT !.has_content_length = TRUE]

\* The Content-Length branch without the duplicate check.
OnContentLengthAgain(a, header) ==
    IF a.body # Chunked
    THEN IF ParseU64(header.value) = <<>>
         THEN [a EXCEPT !.has_content_length = TRUE,
                        !.err = "ContentLengthInvalid"]
         ELSE [a EXCEPT !.has_content_length = TRUE,
                        !.body = Fixed(ParseU64(header.value)[1])]
    ELSE [a EXCEPT !.has_content_length = TRUE, !.close = TRUE]

OnContentLength(a, header) ==
    IF a.has_content_length THEN [a EXCEPT !.err = "DuplicateContentLength"]
    ELSE IF a.body # Chunked
    THEN IF ParseU64(header.value) = <<>>
         THEN [a EXCEPT !.has_content_length = TRUE,
                        !.err = "ContentLengthInvalid"]
         ELSE [a EXCEPT !.has_content_length = TRUE,
                        !.body = Fixed(ParseU64(header.value)[1])]
    ELSE [a EXCEPT !.has_content_length = TRUE, !.close = TRUE]

\* The Connection branch looking at the first token only.
OnConnectionFirst(a, header) ==
    [a EXCEPT !.connection = Append(a.connection, Trim(header.value)),
              !.close = a.close \/ is_close(Split(header.value)[1])]

OnConnection(a, header) ==
    [a EXCEPT !.connection = Append(a.connection, Trim(header.value)),
              !.close = a.close \/
                  \E i \in 1..Len(Split(header.value)) :
                      is_close(Split(header.value)[i])]

\* The Host branch letting the header replace the target's authority.
OnHostOverrides(a, header) ==
    IF a.host_header THEN [a EXCEPT !.err = "DuplicateHost"]
    ELSE [a EXCEPT !.host_header = TRUE, !.host = <<Trim(header.value)>>]

OnHost(a, header) ==
    IF a.host_header THEN [a EXCEPT !.err = "DuplicateHost"]
    ELSE LET strhost == Trim(header.value)
         IN  IF a.host = <<>>
             THEN [a EXCEPT !.host_header = TRUE, !.host = <<strhost>>]
             ELSE IF a.host # <<strhost>>
             THEN [a EXCEPT !.host_header = TRUE, !.conflicting_host = TRUE]
             ELSE [a EXCEPT !.host_header = TRUE]

OnExpect(a, header) ==
    IF is_continue(header.value) THEN [a EXCEPT !.expect_continue = TRUE]
    ELSE a

\* One turn of the loop over the headers.
OnHeader(a, header) ==
    IF eq_ignore_ascii_case(header.name, "Transfer-Encoding")
    THEN OnTransferEncoding(a, header)
    ELSE IF eq_ignore_ascii_case(header.name, "Content-Length")
    THEN OnContentLength(a, header)
    ELSE IF eq_ignore_ascii_case(header.name, "Connection")
    THEN OnConnection(a, header)
    ELSE IF eq_ignore_ascii_case(header.name, "Host")
    THEN OnHost(a, header)
    ELSE IF eq_ignore_ascii_case(header.name, "Expect")
    THEN OnExpect(a, header)
    ELSE a

\* The loop: it stops at the first early return.
RECURSIVE ScanLoop(_, _)
ScanLoop(a, hs) ==
    IF hs = <<>> \/ a.err # "" THEN a
    ELSE ScanLoop(OnHeader(a, Head(hs)), Tail(hs))

\* After the loop.
ConnectBody(raw, a) ==
    IF raw.method = "CONNECT" THEN [a EXCEPT !.body = Unsupported] ELSE a

\* Result<RequestConfig, ErrorEnum>: err is "" for Ok.
scan_headers(raw) ==
    LET target == ParseTarget(raw.path)
    IN  IF target.form = "None"
        THEN [err |-> "BadRequestTarget"]
        ELSE LET a == ScanLoop(ScanStart(raw, target), raw.headers)
             IN  IF a.err # "" THEN [err |-> a.err]
                 ELSE [err |-> "",
                       body |-> ConnectBody(raw, a).body,
                       expect_continue |-> a.expect_continue,
                       connection |-> a.connection,
                       host |-> a.host,
                       target |-> target,
                       connection_close |-> a.close,
                       conflicting_host |-> a.conflicting_host]

\* ----------------------------------------------------------- parse_headers

\* The Head built from the request and its RequestConfig.
MakeHead(raw, cfg) ==
    [method |-> raw.method,
     raw_target |-> raw.path,
     target |-> cfg.target,
     version |-> IF raw.version = 1 THEN "Http11" ELSE "Http10",
     host |-> cfg.host,
     conflicting_host |-> cfg.conflicting_host,
     headers |-> raw.headers,
     body_kind |-> cfg.body,
     connection_close |-> cfg.connection_close \/ raw.version = 0,
     connection_header |-> cfg.connection]

\* What the dispatcher's headers_received may return.
DispatchOutcomes == {"ok", "err"}

\* parse_headers: res is "None" while the preamble is incomplete, "Err" with
\* the error, or "Some" with the body kind and the response configuration;
\* dispatched tells whether headers_received was called, and head is what it
\* was given.
parse_headers(raw, disp) ==
    LET cfg == scan_headers(raw)
    IN  IF ~raw.complete THEN [res |-> "None"]
        ELSE IF cfg.err # ""
        THEN [res |-> "Err", err |-> cfg.err, dispatched |-> FALSE]
        ELSE LET head == MakeHead(raw, cfg)
             IN  IF disp = "err"
                 THEN [res |-> "Err", err |-> "Dispatcher",
                       dispatched |-> TRUE, head |-> head]
                 ELSE [res |-> "Some", err |-> "", dispatched |-> TRUE,
                       head |-> head, body_kind |-> cfg.body,
                       cfg |-> ResponseConfig_from(head)]

\* ------------------------------------------------------ accessors of Head

\* A token that follows the ", " put between two Connection headers.
Sp(s) ==
    CASE s = "Upgrade" -> " Upgrade"
      [] s = "keep-alive" -> " keep-alive"
      [] s = "Close" -> " Close"
      [] s = "close" -> " close"
      [] OTHER -> s

\* conn.split(','): the tokens of the Connection header value, which joins
\* the trimmed values of the Connection headers with ", ".
RECURSIVE JoinedTokens(_)
JoinedTokens(conn) ==
    IF conn = <<>> THEN <<>>
    ELSE LET toks == Split(conn[Len(conn)])
             front == SubSeq(conn, 1, Len(conn) - 1)
         IN  IF front = <<>> THEN toks
             ELSE JoinedTokens(front) \o <<Sp(toks[1])>> \o Tail(toks)

connection_header(head) == head.connection_header

has_body(head) == head.body_kind # Fixed(0)

all_headers(head) == head.headers

\* HeaderIter::next without the names the Connection header lists.
SkippedNamed(head, header) ==
    \/ eq_ignore_ascii_case(header.name, "Connection")
    \/ eq_ignore_ascii_case(header.name, "Transfer-Encoding")
    \/ eq_ignore_ascii_case(header.name, "Content-Length")
    \/ eq_ignore_ascii_case(header.name, "Upgrade")
    \/ eq_ignore_ascii_case(header.name, "Host")

\* HeaderIter::next passes over this header.
Skipped(head, header) ==
    \/ eq_ignore_ascii_case(header.name, "Connection")
    \/ eq_ignore_ascii_case(header.name, "Transfer-Encoding")
    \/ eq_ignore_ascii_case(header.name, "Content-Length")
    \/ eq_ignore_ascii_case(header.name, "Upgrade")
    \/ eq_ignore_ascii_case(header.name, "Host")
    \/ /\ head.connection_header # <<>>
       /\ \E i \in 1..Len(JoinedTokens(head.connection_header)) :
            eq_ignore_ascii_case(Trim(JoinedTokens(head.connection_header)[i]),
                                 header.name)

\* Head::headers: what the HeaderIter yields, in order.
headers(head) == SelectSeq(head.headers, LAMBDA h : ~Skipped(head, h))

\* ----------------------------------------------- websocket::get_handshake

\* tokens.split(",").map(trim).filter(len > 0)
RECURSIVE TokensOf(_)
TokensOf(toks) ==
    IF toks = <<>> THEN <<>>
    ELSE (IF Trim(Head(toks)) = "" THEN <<>> ELSE <<Trim(Head(toks))>>)
         \o TokensOf(Tail(toks))

\* The locals before the loop; ret is "" until an early return.
HsStart ==
    [upgrade |-> FALSE, version |-> FALSE, accept |-> <<>>,
     protocols |-> <<>>, extensions |-> <<>>, ret |-> ""]

\* One turn of the loop.  The accept value stands for the SHA-1 digest of
\* the trimmed key and the GUID.
OnHsHeader(a, h) ==
    IF eq_ignore_ascii_case(h.name, "Sec-WebSocket-Key")
    THEN IF a.accept # <<>> THEN [a EXCEPT !.ret = "Err"]
         ELSE [a EXCEPT !.accept = <<Trim(h.value)>>]
    ELSE IF eq_ignore_ascii_case(h.name, "Sec-WebSocket-Version")
    THEN IF Trim(h.value) # "13" THEN [a EXCEPT !.ret = "Err"]
         ELSE [a EXCEPT !.version = TRUE]
    ELSE IF eq_ignore_ascii_case(h.name, "Sec-WebSocket-Protocol")
    THEN [a EXCEPT !.protocols = @ \o TokensOf(Split(h.value))]
    ELSE IF eq_ignore_ascii_case(h.name, "Sec-WebSocket-Extensions")
    THEN [a EXCEPT !.extensions = @ \o TokensOf(Split(h.value))]
    ELSE IF eq_ignore_ascii_case(h.name, "Upgrade")
    THEN IF ~eq_ignore_ascii_case(h.value, "websocket")
         THEN [a EXCEPT !.ret = "None"]
         ELSE [a EXCEPT !.upgrade = TRUE]
    ELSE a

RECURSIVE HsLoop(_, _)
HsLoop(a, hs) ==
    IF hs = <<>> \/ a.ret # "" THEN a
    ELSE HsLoop(OnHsHeader(a, Head(hs)), Tail(hs))

\* Some token of the Connection header value is upgrade, case apart.
conn_upgrade(req) ==
    /\ connection_header(req) # <<>>
    /\ \E i \in 1..Len(JoinedTokens(connection_header(req))) :
         eq_ignore_ascii_case(JoinedTokens(connection_header(req))[i],
                              "upgrade")

\* Result<Option<WebsocketHandshake>, ()>: res is "None", "Err" or "Some".
get_handshake(req) ==
    IF ~conn_upgrade(req) THEN [res |-> "None"]
    ELSE LET a == HsLoop(HsStart, headers(req))
         IN  IF a.ret # "" THEN [res |-> a.ret]
             ELSE IF has_body(req) THEN [res |-> "Err"]
             ELSE IF ~a.upgrade THEN [res |-> "Err"]
             ELSE IF ~a.version \/ a.accept = <<>> THEN [res |-> "Err"]
             ELSE [res |-> "Some", accept |-> a.accept[1],
                   protocols |-> a.protocols, extensions |-> a.extensions]

get_websocket_upgrade(head) == get_handshake(head)

\* What a dispatcher reads from the Head in headers_received.
Observe(head) ==
    [read |-> TRUE,
     upgrade |-> get_websocket_upgrade(head),
     headers |-> headers(head),
     all_headers |-> all_headers(head)]

\* ------------------------------------------------------------- its actions

\* The request line is in the buffer; nothing was parsed yet.
ScanInit ==
    /\ \E m \in ScanMethods, p \in Paths, v \in ScanVersions :
         request = [method |-> m, path |-> p, version |-> v,
                    headers |-> <<>>, complete |-> FALSE]
    /\ scanned = [res |-> "None"]
    /\ seen = [read |-> FALSE]
    /\ ProtoInit
    /\ EncParked
    /\ WsParked

\* The peer's next header line arrives.
ReceiveHeader ==
    /\ ~request.complete
    /\ Len(request.headers) < MaxHeaders
    /\ \E h \in HeaderLines :
         request' = [request EXCEPT !.headers = Append(@, h)]
    /\ UNCHANGED <<scanned, seen, protoVars, encVars, wsVars>>

\* The blank line that ends the preamble arrives.
ReceiveEnd ==
    /\ ~request.complete
    /\ request' = [request EXCEPT !.complete = TRUE]
    /\ UNCHANGED <<scanned, seen, protoVars, encVars, wsVars>>

\* parse_headers runs on the buffer.
ParseHeaders ==
    /\ scanned.res = "None"
    /\ \E disp \in IfCalled(request.complete /\ scan_headers(request).err = "",
                             DispatchOutcomes) :
         LET r == parse_headers(request, disp)
         IN  /\ scanned' = r
             /\ seen' = IF r.res # "None" /\ r.dispatched
                        THEN Observe(r.head) ELSE seen
    /\ UNCHANGED <<request, protoVars, encVars, wsVars>>

ScanNext == ReceiveHeader \/ ReceiveEnd \/ ParseHeaders

SpecScan == ScanInit /\ [][ScanNext]_vars

\* --------------------------------------------- requests asking for upgrade

\* Bound of the upgrade model.
MaxWsHeaders == 4   \* header lines of a request

WsHeaderLines ==
    {[name |-> "Connection", value |-> "Upgrade"],
     [name |-> "Connection", value |-> "keep-alive, Upgrade"],
     [name |-> "connection", value |-> "Close, x-foo"],
     [name |-> "Upgrade", value |-> "websocket"],
     [name |-> "Sec-WebSocket-Version", value |-> "13"],
     [name |-> "Sec-WebSocket-Version", value |-> "8"],
     [name |-> "Sec-WebSocket-Key", value |-> "k"],
     [name |-> "X-Foo", value |-> "1"],
     [name |-> "Content-Length", value |-> "5"]}

\* The request line of an HTTP/1.1 GET in origin form is in the buffer.
UpInit ==
    /\ request = [method |-> "GET", path |-> "/p", version |-> 1,
                  headers |-> <<>>, complete |-> FALSE]
    /\ scanned = [res |-> "None"]
    /\ seen = [read |-> FALSE]
    /\ ProtoInit
    /\ EncParked
    /\ WsParked

\* The peer's next header line arrives.
ReceiveWsHeader ==
    /\ ~request.complete
    /\ Len(request.headers) < MaxWsHeaders
    /\ \E h \in WsHeaderLines :
         request' = [request EXCEPT !.headers = Append(@, h)]
    /\ UNCHANGED <<scanned, seen, protoVars, encVars, wsVars>>

UpNext == ReceiveWsHeader \/ ReceiveEnd \/ ParseHeaders

SpecUp == UpInit /\ [][UpNext]_vars

\* ------------------------------------------------------ claims on the scanner

\* The header lines of a request with the given name, case apart.
Lines(raw, name) ==
    SelectSeq(raw.headers, LAMBDA h : eq_ignore_ascii_case(h.name, name))

\* Some Transfer-Encoding header has chunked as its last token.
ChunkedLast(raw) ==
    \E i \in 1..Len(Lines(raw, "Transfer-Encoding")) :
        LET toks == Split(Lines(raw, "Transfer-Encoding")[i].value)
        IN  is_chunked(toks[Len(toks)])

\* The scan went through: a Head was made and handed to the dispatcher.
Scanned == scanned.res # "None" /\ scanned.dispatched

\* The request with its header lines up to, not including, line k.
Before(raw, k) == [raw EXCEPT !.headers = SubSeq(@, 1, k - 1)]

\* The position of the second header line with the given name.
Second(raw, name) ==
    LET at == {i \in 1..Len(raw.headers) :
                  eq_ignore_ascii_case(raw.headers[i].name, name)}
        first == CHOOSE i \in at : \A j \in at : i <= j
    IN  CHOOSE i \in at \ {first} : \A j \in at \ {first} : i <= j

\* The framing the precedence rules give a request.
FramingOf(raw) ==
    IF raw.method = "CONNECT" THEN Unsupported
    ELSE IF ChunkedLast(raw) THEN Chunked
    ELSE IF Len(Lines(raw, "Content-Length")) > 0
    THEN Fixed(ParseU64(Lines(raw, "Content-Length")[1].value)[1])
    ELSE Fixed(0)

CarriesBoth(raw) ==
    /\ ChunkedLast(raw)
    /\ \E i \in 1..Len(Lines(raw, "Content-Length")) :
         ParseU64(Lines(raw, "Content-Length")[i].value) # <<>>

\* The request with its header lines in the opposite order.
Reversed(raw) ==
    [raw EXCEPT !.headers =
        [i \in 1..Len(raw.headers) |-> raw.headers[Len(raw.headers) + 1 - i]]]

\* The opposite header order scans to the same framing and close flag.
SameReversed ==
    LET r == scan_headers(Reversed(request))
    IN  /\ r.err = ""
        /\ r.body = scanned.head.body_kind
        /\ r.connection_close = scanned.head.connection_close

\* C18 as stated: with both headers the framing is Chunked and
\* connection_close is true, in either header order.
C18_ChunkedWinsAlways ==
    Scanned /\ CarriesBoth(request) =>
        /\ scanned.head.body_kind = Chunked
        /\ scanned.head.connection_close
        /\ SameReversed

\* C18: when a request carries both a Transfer-Encoding header whose last
\* token is chunked and a valid Content-Length header, connection_close is
\* true and the framing is Chunked, or Unsupported if the method is CONNECT,
\* and the result is the same in either header order.
C18_ChunkedWins ==
    Scanned /\ CarriesBoth(request) =>
        /\ scanned.head.body_kind =
             IF request.method = "CONNECT" THEN Unsupported ELSE Chunked
        /\ scanned.head.connection_close
        /\ SameReversed

\* Content-Length first, Transfer-Encoding: chunked second, on HTTP/1.1.
C18_Witness ==
    /\ Scanned
    /\ request.method = "GET"
    /\ request.version = 1
    /\ request.headers =
         <<[name |-> "Content-Length", value |-> "5"],
           [name |-> "Transfer-Encoding", value |-> "chunked"]>>
    /\ scanned.res = "Some"
    /\ scanned.body_kind = Chunked
    /\ scanned.head.connection_close

\* C19: a preamble with two or more Content-Length headers is rejected with
\* an error and no Head reaches the dispatcher, whatever the values and
\* whether or not chunked framing was seen; the error is
\* DuplicateContentLength unless the scan failed before the second one.
C19_DuplicateContentLength ==
    Len(Lines(request, "Content-Length")) >= 2 /\ scanned.res # "None" =>
        /\ scanned.res = "Err"
        /\ ~scanned.dispatched
        /\ LET earlier ==
                 scan_headers(Before(request,
                                     Second(request, "Content-Length"))).err
           IN  scanned.err = IF earlier = "" THEN "DuplicateContentLength"
                             ELSE earlier

\* Two equal Content-Length headers after chunked framing was seen.
C19_Witness ==
    /\ request.headers =
         <<[name |-> "Transfer-Encoding", value |-> "chunked"],
           [name |-> "Content-Length", value |-> "5"],
           [name |-> "Content-Length", value |-> "5"]>>
    /\ scanned.res = "Err"
    /\ scanned.err = "DuplicateContentLength"
    /\ ~scanned.dispatched

\* The authority of the request target, if it carries one.
AuthorityOf(raw) ==
    IF ParseTarget(raw.path).form \in {"Absolute", "Authority"}
    THEN ParseTarget(raw.path).authority
    ELSE <<>>

\* C20: a second Host header is always an error, DuplicateHost where the scan
\* gets to it; if the request target carries an authority, host() is that
\* authority and has_conflicting_host() is true exactly when a Host header
\* is present whose trimmed value differs from it; otherwise host() is the
\* trimmed Host header value, or none, and has_conflicting_host() is false.
C20_HostResolution ==
    /\ Len(Lines(request, "Host")) >= 2 /\ scanned.res # "None" =>
         /\ scanned.res = "Err"
         /\ ~scanned.dispatched
         /\ scan_headers(Before(request, Second(request, "Host"))).err = ""
            => scanned.err = "DuplicateHost"
    /\ Scanned =>
         LET hosts == Lines(request, "Host")
         IN  IF AuthorityOf(request) # <<>>
             THEN /\ scanned.head.host = AuthorityOf(request)
                  /\ scanned.head.conflicting_host <=>
                       \E i \in 1..Len(hosts) :
                           <<Trim(hosts[i].value)>> # AuthorityOf(request)
             ELSE /\ scanned.head.host =
                       IF hosts = <<>> THEN <<>>
                       ELSE <<Trim(hosts[1].value)>>
                  /\ ~scanned.head.conflicting_host

\* An absolute-form target with authority a and the header Host: b.
C20_Witness ==
    /\ Scanned
    /\ request.path = "http://a/p"
    /\ request.headers = <<[name |-> "Host", value |-> "b"]>>
    /\ scanned.head.host = <<"a">>
    /\ scanned.head.conflicting_host

\* A header Host: " a " adopted, trimmed, for an origin-form target.
C20_WitnessAdopted ==
    /\ Scanned
    /\ request.path = "/p"
    /\ request.headers = <<[name |-> "HOST", value |-> " a "]>>
    /\ scanned.head.host = <<"a">>
    /\ ~scanned.head.conflicting_host

\* Some token of some Connection header is close, case apart.
AsksClose(raw) ==
    \E i \in 1..Len(Lines(raw, "Connection")) :
        \E k \in 1..Len(Split(Lines(raw, "Connection")[i].value)) :
            Lower(Trim(Split(Lines(raw, "Connection")[i].value)[k])) = "close"

\* The conditions under which the connection is to be closed.
MustClose(raw) ==
    \/ raw.version = 0
    \/ AsksClose(raw)
    \/ Len(Lines(raw, "Content-Length")) > 0 /\ ChunkedLast(raw)

\* C21: for every successfully scanned request connection_close is true if
\* and only if the request is HTTP/1.0, or some comma-separated token of
\* some Connection header is close (case apart), or the request has both a
\* Content-Length header and chunked Transfer-Encoding; the encoder built
\* from that Head has its close attribute set under the same condition.
C21_ConnectionClose ==
    Scanned =>
        /\ scanned.head.connection_close <=> MustClose(request)
        /\ new(ResponseConfig_from(scanned.head)).state.close
               <=> MustClose(request)
        /\ scanned.res = "Some" =>
               (new(scanned.cfg).state.close <=> MustClose(request))

\* An HTTP/1.1 request closed by the second token of its Connection header.
C21_Witness ==
    /\ Scanned
    /\ scanned.res = "Some"
    /\ request.version = 1
    /\ request.headers =
         <<[name |-> "Connection", value |-> "keep-alive, Close"]>>
    /\ scanned.head.connection_close
    /\ new(scanned.cfg).state.close

\* An HTTP/1.1 request with a Connection header that is kept alive.
C21_WitnessKept ==
    /\ Scanned
    /\ scanned.res = "Some"
    /\ request.version = 1
    /\ request.headers = <<[name |-> "Connection", value |-> "keep-alive"]>>
    /\ ~scanned.head.connection_close
    /\ ~new(scanned.cfg).state.close

\* ------------------------------------------------------ claims on the upgrade

\* The Connection headers hold the token upgrade, blanks and case apart.
AsksUpgrade(raw) ==
    \E i \in 1..Len(Lines(raw, "Connection")) :
        \E k \in 1..Len(Split(Lines(raw, "Connection")[i].value)) :
            Lower(Trim(Split(Lines(raw, "Connection")[i].value)[k]))
                = "upgrade"

\* The values, trimmed, of the header lines with the given name.
Values(raw, name) ==
    {Trim(Lines(raw, name)[i].value) : i \in 1..Len(Lines(raw, name))}

\* The conditions of a WebSocket handshake.
IsHandshake(raw) ==
    /\ AsksUpgrade(raw)
    /\ \E v \in Values(raw, "Upgrade") : Lower(v) = "websocket"
    /\ Values(raw, "Sec-WebSocket-Version") = {"13"}
    /\ Len(Lines(raw, "Sec-WebSocket-Key")) >= 1
    /\ FramingOf(raw) = Fixed(0)

\* The dispatcher was called and asked the Head for the upgrade.
Asked == seen.read

\* C22: get_websocket_upgrade returns a handshake if and only if the
\* Connection header value contains the token upgrade, an Upgrade: websocket
\* header is present, Sec-WebSocket-Version is 13, a Sec-WebSocket-Key header
\* exists and the request has no body, also when Connection lists several
\* tokens.
C22_HandshakeIff ==
    Asked => (seen.upgrade.res = "Some" <=> IsHandshake(request))

\* The request with its header lines rearranged by the permutation p.
Permuted(raw, p) ==
    [raw EXCEPT !.headers = [i \in 1..Len(raw.headers) |-> raw.headers[p[i]]]]

Orders(n) ==
    {p \in [1..n -> 1..n] : \A i, j \in 1..n : p[i] = p[j] => i = j}

\* What get_websocket_upgrade returns for a request that scans.
UpgradeOf(raw) ==
    get_websocket_upgrade(MakeHead(raw, scan_headers(raw))).res

\* C23: get_websocket_upgrade returns Ok(None) for a plain request (no
\* Connection header, or none with an upgrade token), Err(()) when an upgrade
\* was requested but the handshake is defective, and Ok(Some) otherwise; the
\* outcome does not depend on the order of the headers.
C23_ThreeOutcomes ==
    Asked =>
        /\ seen.upgrade.res =
             IF ~AsksUpgrade(request) THEN "None"
             ELSE IF IsHandshake(request) THEN "Some"
             ELSE "Err"
        /\ \A p \in Orders(Len(request.headers)) :
             UpgradeOf(Permuted(request, p)) = seen.upgrade.res

\* No request of the alphabet is taken for a handshake.
NeverHandshake == Asked => seen.upgrade.res # "Some"

\* ------------------------------------------------ claims on Head::headers

\* The names a request's Connection headers list, in lower case.
ConnectionNames(raw) ==
    UNION {{Lower(Trim(Split(raw.headers[i].value)[k])) :
               k \in 1..Len(Split(raw.headers[i].value))} :
           i \in {j \in 1..Len(raw.headers) :
                    Lower(raw.headers[j].name) = "connection"}}
    \ {""}

HopNames ==
    {"connection", "transfer-encoding", "content-length", "upgrade", "host"}

\* The positions of the request's headers that are the application's.
Passed(raw) ==
    {i \in 1..Len(raw.headers) :
        Lower(raw.headers[i].name) \notin HopNames \cup ConnectionNames(raw)}

\* s is the subsequence of t at the positions of P, in order.
RECURSIVE SubSeqAt(_, _, _)
SubSeqAt(t, P, i) ==
    IF i > Len(t) THEN <<>>
    ELSE (IF i \in P THEN <<t[i]>> ELSE <<>>) \o SubSeqAt(t, P, i + 1)

\* C24: Head::headers() yields, in the original order and with duplicates
\* kept, exactly the headers named neither Connection, Transfer-Encoding,
\* Content-Length, Upgrade, Host nor by a trimmed token of the Connection
\* value; all_headers() yields every header.
C24_HeadersFiltered ==
    Asked =>
        /\ seen.headers = SubSeqAt(request.headers, Passed(request), 1)
        /\ seen.all_headers = request.headers

\* A header named by a Connection token is hidden, a duplicated one is kept twice.
C24_Witness ==
    /\ Asked
    /\ \E i \in 1..Len(request.headers) :
         /\ request.headers[i].name = "X-Foo"
         /\ i \notin Passed(request)
    /\ \E i, j \in 1..Len(seen.headers) :
         i < j /\ seen.headers[i].name = seen.headers[j].name

\* ===================================================== websocket::zero_copy
\*
\* The frame codec: parse_frame reads one frame from the front of the buffer
\* and unmasks it in place, write_packet and write_close append one frame.
\* A buffer is a sequence of bytes; the code's indices count from 0, the
\* model's from 1.

\* The longest payload of the enumerated frames.
MaxPayload == 3

\* a ^ b on u8.
RECURSIVE Xor(_, _)
Xor(a, b) ==
    IF a = 0 THEN b
    ELSE IF b = 0 THEN a
    ELSE (((a % 2) + (b % 2)) % 2) + (2 * Xor(a \div 2, b \div 2))

\* BigEndian::read_u16, BigEndian::read_u64.
RECURSIVE read_be(_)
read_be(bytes) ==
    IF bytes = <<>> THEN 0
    ELSE read_be(SubSeq(bytes, 1, Len(bytes) - 1)) * 256 + bytes[Len(bytes)]

\* n >> (8 * k), by bytes.
RECURSIVE ShiftRight(_, _)
ShiftRight(n, k) == IF k = 0 THEN n ELSE ShiftRight(n \div 256, k - 1)

\* str::from_utf8 succeeds: one-byte and two-byte sequences, which is what
\* the payloads of the alphabet are made of.
from_utf8(data) ==
    \A i \in 1..Len(data) :
        \/ data[i] < 128
        \/ /\ data[i] \in 194..223
           /\ i < Len(data)
           /\ data[i + 1] \in 128..191
        \/ /\ data[i] \in 128..191
           /\ i > 1
           /\ data[i - 1] \in 194..223

\* The (size, fsize) pair of parse_frame, or the early Ok(None).
length_field(buf) ==
    IF buf[2] % 128 = 126 THEN
        IF Len(buf) < 4 THEN [complete |-> FALSE, size |-> 0, fsize |-> 4]
        ELSE [complete |-> TRUE, size |-> read_be(SubSeq(buf, 3, 4)),
              fsize |-> 4]
    ELSE IF buf[2] % 128 = 127 THEN
        IF Len(buf) < 10 THEN [complete |-> FALSE, size |-> 0, fsize |-> 10]
        ELSE [complete |-> TRUE, size |-> read_be(SubSeq(buf, 3, 10)),
              fsize |-> 10]
    ELSE [complete |-> TRUE, size |-> buf[2] % 128, fsize |-> 2]

\* The loop of parse_frame with the key of a different position.
unmask_first(buf, start, size) ==
    [i \in 1..Len(buf) |->
        IF i > start /\ i <= start + size
        THEN Xor(buf[i], buf[start - 3])
        ELSE buf[i]]

\* for idx in 0..size { buf[start + idx] ^= mask[idx % 4] }
unmask(buf, start, size) ==
    [i \in 1..Len(buf) |->
        IF i > start /\ i <= start + size
        THEN Xor(buf[i], buf[(start - 3) + ((i - start - 1) % 4)])
        ELSE buf[i]]

Returned(res, frame, consumed, buf) ==
    [res |-> res, frame |-> frame, consumed |-> consumed, buf |-> buf]

Frame(kind, data) == [kind |-> kind, data |-> data]

Close(code, data) == [kind |-> "Close", code |-> code, data |-> data]

\* match opcode { .. }, on the unmasked buffer.
dispatch_opcode(opcode, buf, start, size) ==
    LET data == SubSeq(buf, start + 1, start + size)
        Some(frame) == Returned("Some", frame, start + size, buf)
        Err(e) == Returned(e, [kind |-> "none"], 0, buf)
    IN  IF opcode = 9 THEN Some(Frame("Ping", data))
        ELSE IF opcode = 10 THEN Some(Frame("Pong", data))
        ELSE IF opcode = 1 THEN
            IF from_utf8(data) THEN Some(Frame("Text", data)) ELSE Err("Utf8")
        ELSE IF opcode = 2 THEN Some(Frame("Binary", data))
        ELSE IF opcode = 8 THEN
            IF size < 2 THEN Err("panic")
            ELSE IF from_utf8(SubSeq(data, 3, size))
            THEN Some(Close(read_be(SubSeq(data, 1, 2)), SubSeq(data, 3, size)))
            ELSE Err("Utf8")
        ELSE Err("InvalidOpcode")

\* parse_frame with the limit tested after the payload is there.
parse_frame_late_limit(buf, limit, masked) ==
    LET None == Returned("None", [kind |-> "none"], 0, buf)
        Err(e) == Returned(e, [kind |-> "none"], 0, buf)
    IN  IF Len(buf) < 2 THEN None
        ELSE LET lf == length_field(buf)
                 size == lf.size
                 start == lf.fsize + (IF masked THEN 4 ELSE 0)
                 fin == buf[1] \div 128 # 0
                 opcode == buf[1] % 16
                 mask == buf[2] \div 128 # 0
             IN  IF ~lf.complete THEN None
                 ELSE IF Len(buf) < start + size THEN None
                 ELSE IF size > limit THEN Err("TooLong")
                 ELSE IF ~fin THEN Err("Fragmented")
                 ELSE IF mask # masked THEN Err("Unmasked")
                 ELSE dispatch_opcode(opcode,
                          IF mask THEN unmask(buf, start, size) ELSE buf,
                          start, size)

\* parse_frame unmasking as soon as the payload is there.
parse_frame_unmask_early(buf, limit, masked) ==
    LET None == Returned("None", [kind |-> "none"], 0, buf)
        Err(e, b) == Returned(e, [kind |-> "none"], 0, b)
    IN  IF Len(buf) < 2 THEN None
        ELSE LET lf == length_field(buf)
                 size == lf.size
                 start == lf.fsize + (IF masked THEN 4 ELSE 0)
                 fin == buf[1] \div 128 # 0
                 opcode == buf[1] % 16
                 mask == buf[2] \div 128 # 0
                 clear == IF mask /\ masked THEN unmask(buf, start, size)
                          ELSE buf
             IN  IF ~lf.complete THEN None
                 ELSE IF size > limit THEN Err("TooLong", buf)
                 ELSE IF Len(buf) < start + size THEN None
                 ELSE IF ~fin THEN Err("Fragmented", clear)
                 ELSE IF mask # masked THEN Err("Unmasked", clear)
                 ELSE dispatch_opcode(opcode, clear, start, size)

\* parse_frame: what it returns and the buffer it leaves.
parse_frame(buf, limit, masked) ==
    LET None == Returned("None", [kind |-> "none"], 0, buf)
        Err(e) == Returned(e, [kind |-> "none"], 0, buf)
    IN  IF Len(buf) < 2 THEN None
        ELSE LET lf == length_field(buf)
                 size == lf.size
                 start == lf.fsize + (IF masked THEN 4 ELSE 0)
                 fin == buf[1] \div 128 # 0
                 opcode == buf[1] % 16
                 mask == buf[2] \div 128 # 0
             IN  IF ~lf.complete THEN None
                 ELSE IF size > limit THEN Err("TooLong")
                 ELSE IF Len(buf) < start + size THEN None
                 ELSE IF ~fin THEN Err("Fragmented")
                 ELSE IF mask # masked THEN Err("Unmasked")
                 ELSE dispatch_opcode(opcode,
                          IF mask THEN unmask(buf, start, size) ELSE buf,
                          start, size)

\* The masking loop with the first key byte for every position.
mask_tail_first(buf, start, bytes) ==
    [i \in 1..Len(buf) |->
        IF i > start THEN Xor(buf[i], bytes[1]) ELSE buf[i]]

\* The masking loop of write_packet / write_close over buf[start..].
mask_tail(buf, start, bytes) ==
    [i \in 1..Len(buf) |->
        IF i > start THEN Xor(buf[i], bytes[((i - start - 1) % 4) + 1])
        ELSE buf[i]]

\* write_packet; bytes is what thread_rng() filled in.
write_packet(buf, opcode, data, mask, bytes) ==
    LET first_byte == opcode + 128
        mask_bit == IF mask THEN 128 ELSE 0
        len == Len(data)
        head ==
            IF len <= 125 THEN <<first_byte, len + mask_bit>>
            ELSE IF len <= 65535
            THEN <<first_byte, 126 + mask_bit,
                   (ShiftRight(len, 1) % 256), (len % 256)>>
            ELSE <<first_byte, 127 + mask_bit>> \o
                 [k \in 1..8 |-> ShiftRight(len, 8 - k) % 256]
    IN  IF mask
        THEN mask_tail(buf \o head \o bytes \o data,
                       Len(buf) + Len(head) + 4, bytes)
        ELSE buf \o head \o data

\* write_close; the assert on the reason's length holds on the alphabet.
write_close(buf, code, reason, mask, bytes) ==
    LET mask_bit == IF mask THEN 128 ELSE 0
        head == <<136, (Len(reason) + 2) + mask_bit>>
        body == <<code \div 256, code % 256>> \o reason
    IN  IF mask
        THEN mask_tail(buf \o head \o bytes \o body, Len(buf) + 6, bytes)
        ELSE buf \o head \o body

\* ----------------------------------------------------------- its inputs

\* Payload bytes: "a", and the two bytes of U+00E9, each of which alone is
\* not UTF-8.
PayloadBytes == {97, 195, 169}

RECURSIVE SeqsUpTo(_, _)
SeqsUpTo(S, n) ==
    IF n = 0 THEN {<<>>}
    ELSE SeqsUpTo(S, n - 1) \cup
         {Append(s, b) : s \in {t \in SeqsUpTo(S, n - 1) : Len(t) = n - 1},
                         b \in S}

Hello == <<72, 101, 108, 108, 111>>

Payloads == SeqsUpTo(PayloadBytes, MaxPayload) \cup {Hello}

\* What write_packet is given: every opcode with every payload and with one
\* that needs the 16-bit length, Binary with one that needs the 64-bit length.
Packets ==
    ({1, 2, 9, 10} \X (Payloads \cup {[i \in 1..126 |-> 97]}))
    \cup {<<2, [i \in 1..65536 |-> 97]>>}

Keys == {<<55, 250, 33, 61>>, <<0, 0, 0, 1>>}

Opcodes == {1, 2, 8, 9, 10, 3}

Limits == {MaxPayload, 70000}

\* The bytes a peer sends for one frame: any FIN and mask bit, any of the
\* three length forms (minimal or not), a length field that may announce
\* more than follows.
Wire(fin, opcode, maskbit, form, declared, key, payload) ==
    <<(IF fin THEN 128 ELSE 0) + opcode,
      (IF maskbit THEN 128 ELSE 0) +
          (IF form = 7 THEN declared ELSE IF form = 16 THEN 126 ELSE 127)>>
    \o (IF form = 7 THEN <<>>
        ELSE IF form = 16 THEN [k \in 1..2 |-> ShiftRight(declared, 2 - k) % 256]
        ELSE [k \in 1..8 |-> ShiftRight(declared, 8 - k) % 256])
    \o (IF maskbit THEN key ELSE <<>>)
    \o (IF maskbit THEN mask_tail(payload, 0, key) ELSE payload)

HeaderSize(form) == IF form = 7 THEN 2 ELSE IF form = 16 THEN 4 ELSE 10

\* The payloads of the frames that arrive in two parts.
CutPayloads == {<<>>, <<97>>, [i \in 1..MaxPayload |-> 97], Hello}

\* The frames the buffer starts with: whole, cut after the length field, or
\* cut one byte before its end.
WireChoices ==
    {c \in [fin : BOOLEAN, opcode : Opcodes, maskbit : BOOLEAN,
            form : {7, 16, 64}, payload : Payloads, more : {0, 1, 70000},
            cut : {"length", "head", "all"}, key : Keys] :
        /\ c.form = 7 => Len(c.payload) + c.more <= 125
        /\ c.form = 16 => Len(c.payload) + c.more <= 65535
        /\ c.cut # "all" => c.payload \in CutPayloads
        /\ c.key # <<55, 250, 33, 61>> =>
               (c.fin /\ c.maskbit /\ c.form = 7 /\ c.more = 0
                /\ c.cut = "all")}

Cut(bytes, form, cut) ==
    IF cut = "all" THEN bytes
    ELSE IF cut = "head" THEN SubSeq(bytes, 1, HeaderSize(form))
    ELSE SubSeq(bytes, 1, HeaderSize(form) - 1)

\* The bytes of a drawn frame as its sender wrote them.
WireFrame(c) ==
    Wire(c.fin, c.opcode, c.maskbit, c.form, Len(c.payload) + c.more,
         c.key, c.payload)

WireBuffers == {Cut(WireFrame(c), c.form, c.cut) : c \in WireChoices}

\* ---------------------------------------------------------- its actions

WsInit ==
    /\ \/ ws_buf = <<>> /\ ws_rest = <<>>
       \/ \E c \in WireChoices :
            /\ ws_buf = Cut(WireFrame(c), c.form, c.cut)
            /\ ws_rest = SubSeq(WireFrame(c), Len(ws_buf) + 1,
                                Len(WireFrame(c)))
    /\ reparsed = [res |-> "none"]
    /\ ws_limit \in Limits
    /\ ws_masked \in BOOLEAN
    /\ parsed = [res |-> "none"]
    /\ packet = [op |-> "none"]
    /\ ProtoInit
    /\ EncParked
    /\ ScanParked

\* One call of parse_frame on the buffer.
ParseFrame ==
    /\ parsed.res = "none"
    /\ LET r == parse_frame(ws_buf, ws_limit, ws_masked)
       IN  /\ parsed' = [res |-> r.res, frame |-> r.frame,
                         consumed |-> r.consumed, before |-> ws_buf,
                         after |-> r.buf]
           /\ ws_buf' = r.buf
    /\ UNCHANGED <<ws_limit, ws_masked, packet, ws_rest, reparsed>>
    /\ UNCHANGED <<protoVars, encVars, scanVars>>

\* The rest of the frame arrives and is appended to the buffer.
ReceiveRest ==
    /\ parsed.res = "None"
    /\ ws_rest # <<>>
    /\ reparsed.res = "none"
    /\ ws_buf' = ws_buf \o ws_rest
    /\ ws_rest' = <<>>
    /\ UNCHANGED <<ws_limit, ws_masked, parsed, packet, reparsed>>
    /\ UNCHANGED <<protoVars, encVars, scanVars>>

\* parse_frame is called again on the read buffer, nothing having been
\* consumed.
ParseAgain ==
    /\ parsed.res \notin {"none", "panic"}
    /\ reparsed.res = "none"
    /\ packet.op = "none"
    /\ LET r == parse_frame(ws_buf, ws_limit, ws_masked)
       IN  /\ reparsed' = [res |-> r.res, frame |-> r.frame,
                           consumed |-> r.consumed, before |-> ws_buf,
                           after |-> r.buf]
           /\ ws_buf' = r.buf
    /\ UNCHANGED <<ws_limit, ws_masked, parsed, packet, ws_rest>>
    /\ UNCHANGED <<protoVars, encVars, scanVars>>

\* One call of write_packet on an empty buffer.
WritePacket ==
    /\ ws_buf = <<>> /\ packet.op = "none" /\ parsed.res = "none"
    /\ \E p \in Packets, mask \in BOOLEAN, bytes \in Keys :
         /\ ws_buf' = write_packet(ws_buf, p[1], p[2], mask, bytes)
         /\ packet' = [op |-> "write_packet", opcode |-> p[1],
                       data |-> p[2], mask |-> mask, bytes |-> bytes]
    /\ UNCHANGED <<ws_limit, ws_masked, parsed, ws_rest, reparsed>>
    /\ UNCHANGED <<protoVars, encVars, scanVars>>

\* One call of write_close on an empty buffer.
WriteClose ==
    /\ ws_buf = <<>> /\ packet.op = "none" /\ parsed.res = "none"
    /\ \E code \in {1000, 1001}, mask \in BOOLEAN, bytes \in Keys,
          reason \in {p \in Payloads : from_utf8(p)} :
         /\ ws_buf' = write_close(ws_buf, code, reason, mask, bytes)
         /\ packet' = [op |-> "write_close", code |-> code,
                       data |-> reason, mask |-> mask, bytes |-> bytes]
    /\ UNCHANGED <<ws_limit, ws_masked, parsed, ws_rest, reparsed>>
    /\ UNCHANGED <<protoVars, encVars, scanVars>>

WsNext ==
    \/ ParseFrame
    \/ WritePacket
    \/ WriteClose
    \/ ReceiveRest
    \/ ParseAgain

SpecWs == WsInit /\ [][WsNext]_vars

\* ------------------------------------------------ claims on the frame codec

Parsed == parsed.res # "none"

\* The bytes of the header up to the end of the length field.
LengthBytes(b) ==
    IF b[2] % 128 = 126 THEN 4 ELSE IF b[2] % 128 = 127 THEN 10 ELSE 2

LengthKnown(b) == Len(b) >= 2 /\ Len(b) >= LengthBytes(b)

\* The payload length a header announces (below 2^24 in every frame drawn).
Announces(b) ==
    IF b[2] % 128 = 126 THEN (b[3] * 256) + b[4]
    ELSE IF b[2] % 128 = 127 THEN (b[8] * 65536) + (b[9] * 256) + b[10]
    ELSE b[2] % 128

\* C25: parse_frame returns TooLong exactly when the length field is fully
\* in the buffer and announces more than the limit, whatever else the frame
\* is (payload missing, FIN clear, wrong mask bit, unknown opcode); a length
\* equal to the limit is not rejected.
C25_TooLongFirst ==
    Parsed =>
        (parsed.res = "TooLong" <=>
            /\ LengthKnown(parsed.before)
            /\ Announces(parsed.before) > ws_limit)

\* An oversized frame of which only the header arrived, fragmented, with the
\* wrong mask bit and an unknown opcode, is rejected.
C25_Witness ==
    /\ parsed.res = "TooLong"
    /\ Len(parsed.before) = LengthBytes(parsed.before)
    /\ parsed.before[1] = 3
    /\ (parsed.before[2] >= 128) # ws_masked
    /\ LengthBytes(parsed.before) = 10

\* A frame as long as the limit is parsed.
C25_WitnessAtLimit ==
    /\ parsed.res = "Some"
    /\ Announces(parsed.before) = ws_limit
    /\ ws_limit > 0

\* 2^k, and a ^ b taken bit by bit.
RECURSIVE Pow2(_)
Pow2(k) == IF k = 0 THEN 1 ELSE 2 * Pow2(k - 1)

RECURSIVE SumTo(_, _)
SumTo(f, k) == IF k < 0 THEN 0 ELSE f[k] + SumTo(f, k - 1)

BitXor(a, b) ==
    SumTo([k \in 0..7 |->
              IF ((a \div Pow2(k)) % 2) # ((b \div Pow2(k)) % 2)
              THEN Pow2(k) ELSE 0], 7)

\* The payload of the frame that was returned.
PayloadOf(frame) ==
    IF frame.kind = "Close"
    THEN <<frame.code \div 256, frame.code % 256>> \o frame.data
    ELSE frame.data

\* C26: when parse_frame(masked = true) returns a frame, every payload byte
\* of the buffer is the original byte XOR mask_key[i mod 4], the header, the
\* mask key and the bytes behind the frame are unchanged, the frame's payload
\* is that unmasked slice and consumed is header length + 4 + payload length.
C26_UnmaskedInPlace ==
    (Parsed /\ parsed.res = "Some" /\ ws_masked) =>
        LET b == parsed.before
            h == LengthBytes(b)
            n == Announces(b)
        IN  /\ Len(parsed.after) = Len(b)
            /\ \A i \in 1..Len(b) :
                 parsed.after[i] =
                    IF i > h + 4 /\ i <= h + 4 + n
                    THEN BitXor(b[i], b[h + 1 + ((i - (h + 5)) % 4)])
                    ELSE b[i]
            /\ PayloadOf(parsed.frame) = SubSeq(parsed.after, h + 5, h + 4 + n)
            /\ parsed.consumed = h + 4 + n

\* The masked text frame 81 85 37 fa 21 3d 7f 9f 4d 51 58 parses to
\* Text("Hello") with 11 bytes consumed.
C26_Witness ==
    /\ ws_masked
    /\ parsed.res = "Some"
    /\ parsed.before = <<129, 133, 55, 250, 33, 61, 127, 159, 77, 81, 88>>
    /\ parsed.frame = Frame("Text", Hello)
    /\ parsed.consumed = 11

KindOf(opcode) ==
    CASE opcode = 1 -> "Text"
      [] opcode = 2 -> "Binary"
      [] opcode = 9 -> "Ping"
      [] opcode = 10 -> "Pong"

\* The frame a written packet stands for, and the length of its payload.
FrameWritten ==
    IF packet.op = "write_close" THEN Close(packet.code, packet.data)
    ELSE Frame(KindOf(packet.opcode), packet.data)

PayloadWritten ==
    IF packet.op = "write_close" THEN Len(packet.data) + 2
    ELSE Len(packet.data)

\* A packet was written into the empty buffer and parsed in its own
\* direction under a limit that admits it.
RoundTrip ==
    /\ Parsed
    /\ packet.op # "none"
    /\ ws_masked = packet.mask
    /\ ws_limit >= PayloadWritten
    /\ (packet.op = "write_packet" /\ packet.opcode = 1)
           => from_utf8(packet.data)

\* C27: a packet written by write_packet (Text, Binary, Ping, Pong) or
\* write_close with mask = m and parsed with masked = m gives a frame of the
\* same variant with the same payload (code and reason for Close), and the
\* consumed count is the number of bytes written.
C27_RoundTrip ==
    RoundTrip =>
        /\ parsed.res = "Some"
        /\ parsed.frame = FrameWritten
        /\ parsed.consumed = Len(parsed.before)

\* A masked packet with the 16-bit length went round.
C27_Witness ==
    /\ RoundTrip
    /\ packet.mask
    /\ Len(packet.data) = 126
    /\ parsed.consumed = 126 + 8

\* The packet with the 64-bit length went round in both directions.
LongRoundTrip ==
    (Parsed /\ packet.op = "write_packet" /\ Len(packet.data) = 65536
     /\ ws_masked = packet.mask /\ ws_limit >= 65536)
        => /\ parsed.res = "Some"
           /\ parsed.consumed = 65536 + 10 + (IF packet.mask THEN 4 ELSE 0)

\* A masked close frame with a reason went round.
C27_WitnessClose ==
    /\ RoundTrip
    /\ packet.op = "write_close"
    /\ packet.mask
    /\ Len(packet.data) = MaxPayload
    /\ parsed.frame.kind = "Close"

\* The frame at the front of the buffer is there whole, mask key included
\* when its mask bit is set.
WholeFrame(b) ==
    /\ LengthKnown(b)
    /\ Len(b) >= LengthBytes(b) + (IF b[2] >= 128 THEN 4 ELSE 0) + Announces(b)

\* The payload of a whole frame as its sender meant it.
SentPayload(b) ==
    LET h == LengthBytes(b)
        n == Announces(b)
    IN  IF b[2] >= 128
        THEN [i \in 1..n |-> BitXor(b[h + 4 + i], b[h + 1 + ((i - 1) % 4)])]
        ELSE SubSeq(b, h + 1, h + n)

\* The error the precedence rule gives a whole frame, "" when it gives none.
ErrorDue(b, masked) ==
    LET opcode == b[1] % 16
        data == SentPayload(b)
    IN  IF b[1] < 128 THEN "Fragmented"
        ELSE IF (b[2] >= 128) # masked
        THEN (IF masked THEN "Unmasked" ELSE "MaskedFromServer")
        ELSE IF opcode \notin {1, 2, 8, 9, 10} THEN "InvalidOpcode"
        ELSE IF opcode = 1 /\ ~from_utf8(data) THEN "Utf8"
        ELSE IF opcode = 8 /\ Len(data) >= 2
                /\ ~from_utf8(SubSeq(data, 3, Len(data))) THEN "Utf8"
        ELSE ""

\* C28: for a whole frame within the limit, a clear FIN bit gives Fragmented;
\* otherwise a mask bit other than the direction's gives Unmasked (masked
\* expected) or MaskedFromServer (unmasked expected); otherwise an unknown
\* opcode gives InvalidOpcode; otherwise invalid UTF-8 in Text or Close
\* gives Utf8; no frame is returned in these cases.
C28_ErrorPrecedence ==
    (/\ Parsed
     /\ WholeFrame(parsed.before)
     /\ Announces(parsed.before) <= ws_limit
     /\ ErrorDue(parsed.before, ws_masked) # "")
        => /\ parsed.res = ErrorDue(parsed.before, ws_masked)
           /\ parsed.frame.kind = "none"

\* What the code does keep of the rule: the order of the errors it reports,
\* once the buffer holds as many bytes as the direction's frame would take.
ErrorOrderKept ==
    (/\ Parsed
     /\ LengthKnown(parsed.before)
     /\ Announces(parsed.before) <= ws_limit
     /\ Len(parsed.before) >= LengthBytes(parsed.before)
            + (IF ws_masked THEN 4 ELSE 0) + Announces(parsed.before))
        => LET b == parsed.before
               opcode == b[1] % 16
           IN  /\ b[1] < 128 => parsed.res = "Fragmented"
               /\ (b[1] >= 128 /\ (b[2] >= 128) # ws_masked)
                      => parsed.res = "Unmasked"
               /\ (b[1] >= 128 /\ (b[2] >= 128) = ws_masked
                   /\ opcode \notin {1, 2, 8, 9, 10})
                      => parsed.res = "InvalidOpcode"
               /\ parsed.res \notin {"None", "TooLong", "MaskedFromServer"}
               /\ parsed.res # "Some" => parsed.frame.kind = "none"

\* --------------------------------------------------------------- C30

\* No handler call has returned an error: an error return (or a panic) is
\* what leaves Void behind, and Void stays.
ErrorFree == writing # "Void" /\ reading # "Void"

\* A call returns Err or panics exactly when it leaves the first Void.
ErrorFreeIsNoVoid ==
    [][/\ ~ErrorFree => ~ErrorFree'
       /\ (ErrorFree /\ Called)
              => (ErrorFree' <=> ret'.res \notin {"Err", "Panic"})]_vars

NoDuplicates(s) == \A i, j \in 1..Len(s) : s[i] = s[j] => i = j

\* C30: after calls that returned no error, the codecs accepted are those
\* completed, the one being parsed and those queued, each once and in that
\* order (pushed once, popped once); a codec handed back is not held; the
\* codec of the pending write future is the one accepted last.
C30_Conservation ==
    ErrorFree =>
        /\ Len(Accepted) =
              Len(Completed) + Len(waiting) + (IF reading = "Read" THEN 1 ELSE 0)
        /\ NoDuplicates(Accepted)
        /\ Accepted = Created \o waiting
        /\ Created = Completed \o (IF reading = "Read" THEN <<parser>> ELSE <<>>)
        /\ (ret.op = "start_send" /\ ret.res = "NotReady")
               => /\ ret.item \notin HeldCodecs
                  /\ \A i \in 1..Len(Accepted) : Accepted[i] # ret.item
        /\ writing = "Write" => /\ Accepted # <<>>
                                /\ wfut = Accepted[Len(Accepted)]

\* One codec completed, one being parsed, one queued with its write pending,
\* and the next one just handed back.
C30_Witness ==
    /\ ErrorFree
    /\ Len(Completed) >= 1
    /\ reading = "Read"
    /\ Len(waiting) >= 1
    /\ writing = "Write"
    /\ ret.op = "start_send" /\ ret.res = "NotReady"

\* ------------------------------------------------- an exchange that goes well

\* poll_complete when nothing fails: the flush succeeds, the write future is
\* Ready or NotReady (fos), n parsers (ns) answer Ready(Some(io)) and the next
\* one NotReady.
PollWell(fos, ns) ==
    /\ \E fo \in IfCalled(writing = "Write", fos),
          wsets \in IfCalled(writing = "Write", BOOLEAN),
          n \in ns,
          psets \in IfCalled(ParsersAhead(Engine) > 0, BOOLEAN) :
         \E o \in {poll_complete(Engine, "ok", fo, wsets, n,
                                  IF ParsersAhead(Engine) > 0 THEN "NotReady"
                                  ELSE "uncalled",
                                  psets)} :
            Install(o)
    /\ UNCHANGED <<eof, nextId>>
    /\ UNCHANGED <<encVars, scanVars, wsVars>>

PollLive == PollWell({"Ready", "NotReady"}, 0..ParsersAhead(Engine))

\* A poll in which the pending write future resolves.
PollWriteReady ==
    /\ writing = "Write"
    /\ PollWell({"Ready"}, 0..ParsersAhead(Engine))

\* A poll in which the response being awaited has arrived whole.
PollResponse ==
    /\ ParsersAhead(Engine) > 0
    /\ PollWell({"Ready", "NotReady"}, 1..ParsersAhead(Engine))

\* start_send when nothing fails: start_write gives a value or a future.
StartSendLive ==
    /\ nextId <= MaxCodecs
    /\ \E sw \in IfCalled(StartsWrite(Engine), {"ValueOk", "Future"}),
          sets \in IfCalled(StartsWrite(Engine), BOOLEAN) :
         LET o == start_send(Engine, nextId, sw,
                             IF writing = "Idle" /\ ~StartsWrite(Engine)
                             THEN "ok" ELSE "uncalled",
                             sets)
         IN  /\ Install(o)
             /\ nextId' = IF o.ret.res = "NotReady" THEN nextId ELSE nextId + 1
             /\ UNCHANGED eof
    /\ UNCHANGED <<encVars, scanVars, wsVars>>

LiveNext == StartSendLive \/ PollLive

\* poll is called again and again; a pending write future resolves at some
\* poll, and the response awaited is complete at some poll.
SpecLive ==
    /\ Init
    /\ [][LiveNext]_vars
    /\ WF_vars(PollWriteReady)
    /\ WF_vars(PollResponse)

\* Every accepted codec is completed and both halves are Idle with their
\* buffers.
Settled ==
    /\ Accepted = Completed
    /\ Created = Completed
    /\ waiting = <<>>
    /\ reading = "Idle" /\ cin = "Idle"
    /\ writing = "Idle" /\ cout = "Idle"

\* C29: under repeated polls, write futures that resolve and responses that
\* arrive whole, whenever a codec is accepted and not completed, the reader
\* is parsing or the writer has a future pending, a state follows in which
\* every accepted codec has had its parser created and completed, the reader
\* is Idle with the read buffer and the writer Idle with the write buffer.
C29_ExchangeCompletes == (~Settled) ~> Settled

\* The parser of an exchange runs while its own write future is pending.
C29_Witness ==
    /\ writing = "Write"
    /\ reading = "Read"
    /\ parser = wfut
    /\ Len(Completed) >= 1

\* One poll completes at most one exchange (refuted: it may complete several).
OnePerPoll == [][Len(Completed') <= Len(Completed) + 1]_vars

\* C31: parse_frame is total: whatever the buffer, the limit and the
\* direction, it returns incomplete, an error, or a frame with a consumed
\* count within the buffer, and never aborts on an out-of-range access; a
\* whole Close frame with a payload of 0 or 1 bytes is answered with a value.
C31_Total ==
    Parsed =>
        /\ parsed.res # "panic"
        /\ parsed.res = "Some" =>
               (parsed.consumed >= 2 /\ parsed.consumed <= Len(parsed.before))

\* What is kept of it: apart from a Close frame too short for its code, every
\* call returns, and a frame's consumed count lies within the buffer.
TotalButShortClose ==
    Parsed =>
        /\ parsed.res = "panic" =>
               /\ parsed.before[1] = 128 + 8
               /\ WholeFrame(parsed.before)
               /\ Announces(parsed.before) < 2
               /\ (parsed.before[2] >= 128) = ws_masked
        /\ parsed.res = "Some" =>
               (parsed.consumed >= 2 /\ parsed.consumed <= Len(parsed.before))

Reparsed == reparsed.res # "none"

\* The results after which the claim has the buffer untouched.
Quiet(res) == res \in {"None", "TooLong", "Fragmented", "Unmasked"}

\* The first call unmasked the frame at the front of the buffer.
UnmaskedFirst ==
    /\ Parsed
    /\ parsed.res \in {"Some", "InvalidOpcode", "Utf8"}
    /\ ws_masked

\* The payload bytes of the frame at the front of b, as they lie in b.
PayloadIn(b, before) ==
    SubSeq(b, LengthBytes(before) + 5,
           LengthBytes(before) + 4 + Announces(before))

KeyOf(b) == SubSeq(b, LengthBytes(b) + 1, LengthBytes(b) + 4)

\* What the two claims on the second call have in common: after a quiet
\* result the buffer is byte for byte what it was, and what is parsed later
\* is that buffer with the arrived bytes behind it, with the result of one
\* parse of the whole.
UntouchedWhenQuiet ==
    /\ (Parsed /\ Quiet(parsed.res)) => parsed.after = parsed.before
    /\ (Reparsed /\ Quiet(reparsed.res)) => reparsed.after = reparsed.before
    /\ (Reparsed /\ Quiet(parsed.res)) =>
           /\ IsPrefix(parsed.before, reparsed.before)
           /\ LET once == parse_frame(reparsed.before, ws_limit, ws_masked)
              IN  /\ reparsed.res = once.res
                  /\ reparsed.frame = once.frame
                  /\ reparsed.consumed = once.consumed

\* C32 as stated: parse_frame changes the buffer only when it unmasks a whole
\* frame (after incomplete, TooLong, Fragmented, Unmasked it is unchanged and
\* a later call parses the whole frame as one call would); after an unmasking
\* call a second call on the same bytes yields a different payload whenever
\* the mask key is not zero.
C32_SecondParseDiffers ==
    /\ UntouchedWhenQuiet
    /\ (UnmaskedFirst /\ Reparsed /\ KeyOf(parsed.before) # <<0, 0, 0, 0>>) =>
           PayloadIn(reparsed.after, parsed.before)
               # PayloadIn(parsed.after, parsed.before)

\* C32 amended: ... after an unmasking call a second call on the same bytes
\* masks the payload again: the buffer is back at the bytes received, and the
\* payload differs from the unmasked one exactly at the positions whose key
\* byte is not zero (nowhere for an empty payload, or when the key bytes
\* that the payload reaches are zero).
C32_SecondParseRemasks ==
    /\ UntouchedWhenQuiet
    /\ (UnmaskedFirst /\ Reparsed) =>
           /\ reparsed.before = parsed.after
           /\ reparsed.after = parsed.before
           /\ \A i \in 1..Announces(parsed.before) :
                (PayloadIn(reparsed.after, parsed.before)[i]
                     # PayloadIn(parsed.after, parsed.before)[i])
                <=> KeyOf(parsed.before)[((i - 1) % 4) + 1] # 0

\* Text("Hello") masked with 00 00 00 01 was parsed twice: the second call
\* sees a payload that differs in its fourth byte only.
C32_Witness ==
    /\ UnmaskedFirst
    /\ Reparsed
    /\ parsed.frame = Frame("Text", Hello)
    /\ KeyOf(parsed.before) = <<0, 0, 0, 1>>
    /\ reparsed.res = "Some"
    /\ reparsed.frame.data = <<72, 101, 108, 109, 111>>

\* A frame of which only the header had arrived was parsed when the rest came.
C32_WitnessLater ==
    /\ parsed.res = "None"
    /\ Len(parsed.before) > 2
    /\ reparsed.res = "Some"
    /\ Len(reparsed.frame.data) = 5

====
